---- MODULE Spec2Model ----
(***************************************************************************)
(* A model of the aquila asset-and-compute gateway.                        *)
(*                                                                         *)
(*   Spec        the asset API (POST /assets, PUT /assets/stream/{hash},   *)
(*               GET /assets/{hash}) running as concurrent handler tasks   *)
(*               over one storage backend (FileSystemStorage or            *)
(*               OpendalStorage).                                          *)
(*   SpecStream  Spec with body streams that break off.                    *)
(*   SpecPath    the asset endpoints with {hash} values holding a slash.   *)
(*   SpecManifest, SpecPublish  the manifest API, the latter over a        *)
(*               storage whose writes can fail.                            *)
(*   SpecAuth    the scope gate, layered auth and POST /auth/token.        *)
(*   SpecChain   sequences of POST /auth/token of callers without admin.   *)
(*   SpecJwt     the verify entry points of the token service.             *)
(*   SpecAttach, SpecAttachFair  the attach WebSocket multiplexer over a   *)
(*               log stream, the latter under the runtime's scheduling.    *)
(*   SpecError   the error mapper.                                         *)
(***************************************************************************)
EXTENDS Integers, Sequences, FiniteSets, TLC

(***************************************************************************)
(* Bounds.                                                                 *)
(***************************************************************************)
\* Longest request body, in bytes.
MaxBodyLen == 1
\* Largest byte value of a body.
MaxByte == 0
\* Number of handler tasks that can be in flight at once.
MaxReqs == 2

Byte == 0..MaxByte
Reqs == 1..MaxReqs

RECURSIVE SeqsUpTo(_, _)
SeqsUpTo(S, n) ==
    IF n = 0 THEN {<<>>}
    ELSE LET shorter == SeqsUpTo(S, n - 1)
         IN  shorter \cup {Append(s, x) : s \in {t \in shorter : Len(t) = n - 1}, x \in S}

Bodies == SeqsUpTo(Byte, MaxBodyLen)

(***************************************************************************)
(* Hashing.  hex::encode(Sha256(b)) is modelled as a collision-free        *)
(* numbering of byte sequences (bijective numeration in base MaxByte + 1,  *)
(* shifted by one), so that a digest is a value of another kind than the   *)
(* bytes it was computed from.  Address 0 is the digest of no body: it     *)
(* stands for a client-asserted hash such as "deadbeef".                   *)
(***************************************************************************)
RECURSIVE HexSha256(_)
HexSha256(b) ==
    IF b = <<>> THEN 1
    ELSE 1 + (Head(b) + 1) + (MaxByte + 1) * (HexSha256(Tail(b)) - 1)

DeadBeef == 0
Digests == {HexSha256(b) : b \in Bodies}
\* Values of the {hash} path parameter.
Hashes == Digests \cup {DeadBeef}

(***************************************************************************)
(* Storage paths.  atomic_write stages a file at                           *)
(* path.with_extension("tmp").                                             *)
(***************************************************************************)
WithExtensionTmp(path) == [path EXCEPT !.ext = "tmp"]

(***************************************************************************)
(* Manifests.  A version string is kept as std::path::Path sees the file   *)
(* name it becomes: the part before the last dot (the two leading numbers  *)
(* of "1.0.0" as the number 10) and the extension after it.  "latest" has  *)
(* no extension.                                                           *)
(***************************************************************************)
\* Largest value of the assets table of a manifest.
MaxAssets == 1
Versions == {[stem |-> 10, ext |-> "0"], [stem |-> 10, ext |-> "1"],
             [stem |-> 20, ext |-> "0"]}
Latest == [stem |-> 0, ext |-> ""]
\* StorageBackend::get_manifest_path: format!("manifests/{version}")
ManifestPath(version) == [dir |-> "manifests", stem |-> version.stem, ext |-> version.ext]
Manifests == [version : Versions, assets : 0..MaxAssets]

\* Path(hash): Path<String> hands the handler the percent-decoded segment,
\* so the segment "manifests%2F<version>" arrives as the string
\* "manifests/<version>".  Such strings are numbered past the digests.
SlashParam(version) ==
    100 * (1 + version.stem) + (IF version.ext = "" THEN 2 ELSE IF version.ext = "0" THEN 0 ELSE 1)
SlashParams == {SlashParam(v) : v \in Versions \cup {Latest}}

\* A blob lives at "<hash>", the {hash} string taken as a relative path
\* (root.join(hash), or the object key as it is): a string with a slash
\* names a file in a directory.
BlobPath(h) ==
    IF h \in SlashParams
    THEN LET version == CHOOSE v \in Versions \cup {Latest} : SlashParam(v) = h
         IN  [dir |-> "manifests", stem |-> version.stem, ext |-> version.ext]
    ELSE [dir |-> "", stem |-> h, ext |-> ""]
NoManifest == [version |-> Latest, assets |-> -1]

\* The last number of a version, as a digit of the JSON text and back.
ExtDigit(ext) == IF ext = "0" THEN 0 ELSE 1
DigitExt(d) == IF d = 0 THEN "0" ELSE "1"

\* serde_json::to_vec_pretty(&manifest): the JSON text, one number per
\* token: the braces, the version and the assets table.
ToVecPretty(m) == <<123, m.version.stem, ExtDigit(m.version.ext), m.assets, 125>>

\* serde_json::from_slice::<AssetManifest>(&data): Err on text that is not a
\* whole manifest.
FromSlice(data) ==
    IF /\ Len(data) = 5
       /\ data[1] = 123 /\ data[5] = 125
       /\ data[2] \in {v.stem : v \in Versions} /\ data[3] \in {0, 1}
       /\ data[4] >= 0
    THEN [ok |-> TRUE, value |-> [version |-> [stem |-> data[2], ext |-> DigitExt(data[3])],
                                  assets |-> data[4]]]
    ELSE [ok |-> FALSE, value |-> NoManifest]

Paths == {BlobPath(h) : h \in Hashes} \cup {WithExtensionTmp(BlobPath(h)) : h \in Hashes}
         \cup {ManifestPath(v) : v \in Versions \cup {Latest}}
         \cup {WithExtensionTmp(ManifestPath(v)) : v \in Versions \cup {Latest}}

\* The content of a path at which no file exists.
NoFile == <<-1>>
\* File descriptors of a task that holds none / whose file was replaced.
NoFd == [dir |-> "nofd", stem |-> 0, ext |-> ""]
Unlinked == [dir |-> "unlinked", stem |-> 0, ext |-> ""]

\* write_all at offset 0 of a file opened by another task as well: the bytes
\* beyond the written ones stay.
Overlay(data, old) ==
    IF Len(old) > Len(data) THEN data \o SubSeq(old, Len(data) + 1, Len(old)) ELSE data

\* A body as the stream of chunks of PUT /assets/stream: one byte per chunk.
Chunks(b) == [i \in 1..Len(b) |-> <<b[i]>>]

NoDigest == -1
NoUrl == [url |-> -1]
\* deletes counts the delete_file calls the handler made, deleted is the
\* outcome of the last; aborted tells how a body stream that broke off ended
\* the request.  Status 0 is a request that got no response.
NoResp == [status |-> 0, digest |-> NoDigest, bytes |-> <<>>, deleted |-> "none",
           deletes |-> 0, location |-> NoUrl, json |-> NoManifest, aborted |-> "none"]
\* version, query, latest and wrote belong to the manifest handlers: the
\* version published or read, the query string, params.latest, and the number of
\* write_manifest calls that have returned.
NewReq == [kind |-> "idle", pc |-> "idle", hash |-> DeadBeef, body |-> <<>>,
           todo |-> <<>>, hasher |-> <<>>, wbuf |-> <<>>, created |-> FALSE,
           data |-> <<>>, fd |-> NoFd, probes |-> 0,
           version |-> Latest, latest |-> FALSE, wrote |-> 0, query |-> "none"]

VARIABLES
    backend,        \* "fs" (FileSystemStorage) or "opendal" (OpendalStorage)
    atomicWriter,   \* opendal: the service shows a written object only at close()
    presigning,     \* the storage port overrides get_download_url
    files,          \* the storage: path -> bytes, or NoFile
    req,            \* per handler task: its request and its local variables
    resp,           \* per handler task: the response it produced
    after           \* per task: the tasks that had responded when it started

storageVars == <<backend, atomicWriter, presigning, files, req, resp, after>>

\* StorageBackend::get_download_url: Ok(None) by the default of the trait; a
\* port that overrides it (presigned or CDN URLs) answers Ok(Some(url)), the
\* URL being computed from the path alone.
Url(h) == [url |-> h]
GetDownloadUrl(h) == IF presigning THEN Url(h) ELSE NoUrl

\* The path the storage write of a task goes to: the blob of its hash, or
\* the manifest of its version and then of "latest".
Target(p) ==
    IF req[p].kind = "publish"
    THEN ManifestPath(IF req[p].wrote = 0 THEN req[p].version ELSE Latest)
    ELSE BlobPath(req[p].hash)

InitStorage ==
    /\ backend \in {"fs", "opendal"}
    /\ atomicWriter \in BOOLEAN
    /\ (backend = "fs") => atomicWriter
    /\ presigning \in BOOLEAN
    /\ files = [p \in Paths |-> NoFile]
    /\ req = [p \in Reqs |-> NewReq]
    /\ resp = [p \in Reqs |-> NoResp]
    /\ after = [p \in Reqs |-> {}]

Done(p) == req[p].pc = "done"

\* The handler returns: the task keeps only its request and its response.
Respond(p, r) ==
    /\ req' = [req EXCEPT ![p] = [NewReq EXCEPT !.kind = req[p].kind, !.pc = "done",
                                                !.hash = req[p].hash, !.body = req[p].body,
                                                !.created = req[p].created,
                                                !.probes = req[p].probes,
                                                !.version = req[p].version,
                                                !.latest = req[p].latest,
                                                !.query = req[p].query,
                                                !.wrote = req[p].wrote]]
    /\ resp' = [resp EXCEPT ![p] = r]

Begin(p, r) ==
    /\ req[p].pc = "idle"
    /\ req' = [req EXCEPT ![p] = r]
    /\ after' = [after EXCEPT ![p] = {q \in Reqs \ {p} : Done(q)}]
    /\ UNCHANGED <<backend, atomicWriter, presigning, files, resp>>

\* POST /assets: the handler hashes the buffered body, then calls write_blob.
StartPost(p, b) ==
    Begin(p, [NewReq EXCEPT !.kind = "post", !.pc = "write_blob",
                            !.hash = HexSha256(b), !.body = b, !.todo = <<b>>])

\* PUT /assets/stream/{h}: the body is a stream of chunks.
StartPut(p, h, b) ==
    Begin(p, [NewReq EXCEPT !.kind = "put", !.pc = "write_stream",
                            !.hash = h, !.body = b, !.todo = Chunks(b)])

\* GET /assets/{h}
StartGet(p, h) ==
    Begin(p, [NewReq EXCEPT !.kind = "get", !.pc = "read_file", !.hash = h])

\* The connection of a finished request goes away; its task can serve another.
Forget(p) ==
    /\ Done(p)
    /\ req' = [req EXCEPT ![p] = NewReq]
    /\ resp' = [resp EXCEPT ![p] = NoResp]
    /\ after' = [q \in Reqs |-> IF q = p THEN {} ELSE after[q] \ {p}]
    /\ UNCHANGED <<backend, atomicWriter, presigning, files>>

(***************************************************************************)
(* write_blob / write_stream: the existence check both backends start with.*)
(***************************************************************************)
\* StorageBackend::write_stream of the trait: FileSystemStorage has no
\* streaming write.
WriteStreamUnsupported(p) ==
    /\ req[p].pc = "write_stream"
    /\ backend = "fs"
    /\ Respond(p, [NoResp EXCEPT !.status = 501])
    /\ UNCHANGED <<backend, atomicWriter, presigning, files, after>>

\* A backend that writes without looking for an existing blob.
WriteExistsOverwrites(p) ==
    /\ \/ req[p].pc = "write_blob"
       \/ req[p].pc = "write_stream" /\ backend = "opendal"
    /\ req' = [req EXCEPT ![p].pc = IF backend = "fs" THEN "fs_open" ELSE "od_open"]
    /\ UNCHANGED <<backend, atomicWriter, presigning, files, resp, after>>

\* path.exists() / op.exists(path): an existing blob short-circuits the
\* write, and the handler answers 200 with the hash.
WriteExists(p) ==
    /\ \/ req[p].pc = "write_blob"
       \/ req[p].pc = "write_stream" /\ backend = "opendal"
    /\ IF files[BlobPath(req[p].hash)] # NoFile
       THEN Respond(p, [NoResp EXCEPT !.status = 200, !.digest = req[p].hash])
       ELSE /\ req' = [req EXCEPT ![p].pc = IF backend = "fs" THEN "fs_open" ELSE "od_open"]
            /\ UNCHANGED resp
    /\ UNCHANGED <<backend, atomicWriter, presigning, files, after>>

\* A publish_manifest that never writes "latest".
WrittenSkipsLatest(p) ==
    IF req[p].kind = "publish"
    THEN [req |-> [NewReq EXCEPT !.kind = "publish", !.pc = "done",
                                 !.body = req[p].body, !.version = req[p].version,
                                 !.latest = req[p].latest, !.query = req[p].query,
                                 !.wrote = req[p].wrote + 1],
          resp |-> [NoResp EXCEPT !.status = 201]]
    ELSE [req |-> [NewReq EXCEPT !.kind = req[p].kind, !.pc = "done", !.hash = req[p].hash,
                                 !.body = req[p].body, !.created = TRUE],
          resp |-> [NoResp EXCEPT !.status = 201, !.digest = req[p].hash]]

\* The write of task p returned Ok: the task and its response afterwards.
\* upload_asset answers 201 with the hash.  publish_manifest goes on to
\* write_manifest("latest") when ?latest is set and answers 201 otherwise.
Written(p) ==
    IF req[p].kind = "publish"
    THEN IF req[p].wrote = 0 /\ req[p].latest
         THEN [req |-> [req[p] EXCEPT !.pc = IF backend = "fs" THEN "fs_open" ELSE "od_open",
                                      !.wrote = 1, !.fd = NoFd, !.wbuf = <<>>,
                                      !.todo = <<req[p].body>>],
               resp |-> resp[p]]
         ELSE [req |-> [NewReq EXCEPT !.kind = "publish", !.pc = "done",
                                      !.body = req[p].body, !.version = req[p].version,
                                      !.latest = req[p].latest, !.query = req[p].query,
                                 !.wrote = req[p].wrote + 1],
               resp |-> [NoResp EXCEPT !.status = 201]]
    ELSE [req |-> [NewReq EXCEPT !.kind = req[p].kind, !.pc = "done", !.hash = req[p].hash,
                                 !.body = req[p].body, !.created = TRUE],
          resp |-> [NoResp EXCEPT !.status = 201, !.digest = req[p].hash]]

(***************************************************************************)
(* FileSystemStorage::write_blob -> atomic_write: fs::write to the         *)
(* temporary path (open with create and truncate, then write_all), then    *)
(* fs::rename into place.                                                  *)
(***************************************************************************)
FsOpenTmp(p) ==
    LET tmp == WithExtensionTmp(Target(p))
    IN  /\ req[p].pc = "fs_open"
        /\ files' = [files EXCEPT ![tmp] = <<>>]
        /\ req' = [req EXCEPT ![p].pc = "fs_write", ![p].fd = tmp]
        /\ UNCHANGED <<backend, atomicWriter, presigning, resp, after>>

FsWriteAll(p) ==
    /\ req[p].pc = "fs_write"
    /\ files' = IF req[p].fd = Unlinked THEN files
                ELSE [files EXCEPT ![req[p].fd] = Overlay(req[p].body, @)]
    /\ req' = [req EXCEPT ![p].pc = "fs_rename", ![p].fd = NoFd]
    /\ UNCHANGED <<backend, atomicWriter, presigning, resp, after>>

\* rename(tmp, path): fails when another writer of the same path has renamed
\* the shared temporary file away (StorageError::Io, HTTP 500).  A file that
\* another task still has open keeps being written at its new place.
FsRename(p) ==
    LET path == Target(p)
        tmp  == WithExtensionTmp(path)
        moved == [q \in Reqs |->
                    IF req[q].fd = tmp THEN [req[q] EXCEPT !.fd = path]
                    ELSE IF req[q].fd = path THEN [req[q] EXCEPT !.fd = Unlinked]
                    ELSE req[q]]
    IN  /\ req[p].pc = "fs_rename"
        /\ IF files[tmp] = NoFile
           THEN /\ Respond(p, [NoResp EXCEPT !.status = 500])
                /\ UNCHANGED files
           ELSE /\ files' = [files EXCEPT ![path] = files[tmp], ![tmp] = NoFile]
                /\ req' = [moved EXCEPT ![p] = Written(p).req]
                /\ resp' = [resp EXCEPT ![p] = Written(p).resp]
        /\ UNCHANGED <<backend, atomicWriter, presigning, after>>

(***************************************************************************)
(* OpendalStorage: op.write(path, data) and op.writer(path) + write per    *)
(* chunk + close().  A service whose writer is not atomic creates the      *)
(* object when the writer opens and shows every chunk as it is written.    *)
(***************************************************************************)
OdOpen(p) ==
    /\ req[p].pc = "od_open"
    /\ files' = IF atomicWriter THEN files
                ELSE [files EXCEPT ![Target(p)] = <<>>]
    /\ req' = [req EXCEPT ![p].pc = "od_write", ![p].wbuf = <<>>]
    /\ UNCHANGED <<backend, atomicWriter, presigning, resp, after>>

\* stream.next() hands over one chunk, which the map_ok closure of the
\* handler feeds to the hasher, and writer.write(chunk) writes it.
OdWrite(p) ==
    LET chunk == Head(req[p].todo)
        buf   == req[p].wbuf \o chunk
    IN  /\ req[p].pc = "od_write"
        /\ req[p].todo # <<>>
        /\ files' = IF atomicWriter THEN files
                    ELSE [files EXCEPT ![Target(p)] = buf]
        /\ req' = [req EXCEPT ![p].todo = Tail(@), ![p].wbuf = buf,
                              ![p].hasher = IF req[p].kind = "put" THEN @ \o chunk ELSE @]
        /\ UNCHANGED <<backend, atomicWriter, presigning, resp, after>>

\* writer.close(): the write returns Ok(true).  upload_asset answers 201;
\* upload_asset_stream goes on to compare the digests.
OdClose(p) ==
    /\ req[p].pc = "od_write"
    /\ req[p].todo = <<>>
    /\ files' = IF atomicWriter THEN [files EXCEPT ![Target(p)] = req[p].wbuf]
                ELSE files
    /\ IF req[p].kind = "put"
       THEN /\ req' = [req EXCEPT ![p].pc = "verify", ![p].created = TRUE, ![p].wbuf = <<>>]
            /\ UNCHANGED resp
       ELSE /\ req' = [req EXCEPT ![p] = Written(p).req]
            /\ resp' = [resp EXCEPT ![p] = Written(p).resp]
    /\ UNCHANGED <<backend, atomicWriter, presigning, after>>

\* The body stream of a PUT breaks off.  Either stream.next() resolves to
\* Some(Err(e)): write_stream returns StorageError::Io through `?`, the writer
\* is dropped without close(), and the handler returns the error through its
\* own `?` (HTTP 500).  Or the connection is gone and the handler's future is
\* dropped where it awaits.  Either way no close, no comparison of digests
\* and no delete_file follows.
OdStreamFails(p) ==
    /\ req[p].pc = "od_write" /\ req[p].kind = "put"
    /\ files' = files
    /\ \E how \in {"error", "cancelled"} :
          Respond(p, [NoResp EXCEPT !.status = IF how = "error" THEN 500 ELSE 0,
                                    !.aborted = how])
    /\ UNCHANGED <<backend, atomicWriter, presigning, after>>

\* A delete_file that reports success and removes nothing.
DeleteFileKeepsBlob(fs, path, ok) == fs

\* OpendalStorage::delete_file, which can fail; the file then stays.
DeleteFile(fs, path, ok) == IF ok THEN [fs EXCEPT ![path] = NoFile] ELSE fs

\* An upload_asset_stream that fails a mismatching upload and leaves the blob.
PutVerifyNoDelete(p) ==
    /\ req[p].pc = "verify"
    /\ IF HexSha256(req[p].hasher) # req[p].hash
       THEN Respond(p, [NoResp EXCEPT !.status = 500])
       ELSE Respond(p, [NoResp EXCEPT !.status = 201, !.digest = req[p].hash])
    /\ UNCHANGED <<backend, atomicWriter, presigning, files, after>>

\* upload_asset_stream after write_stream returned Ok(true): the computed
\* digest is compared with the path's; on a mismatch the blob is deleted
\* (an error of the delete is only logged) and the request fails with
\* StorageError::System, HTTP 500.
PutVerify(p) ==
    LET calculated_hash == HexSha256(req[p].hasher)
    IN  /\ req[p].pc = "verify"
        /\ IF calculated_hash # req[p].hash
           THEN \E ok \in BOOLEAN :
                  /\ files' = DeleteFile(files, BlobPath(req[p].hash), ok)
                  /\ Respond(p, [NoResp EXCEPT !.status = 500, !.deletes = 1,
                                    !.deleted = IF ok THEN "ok" ELSE "failed"])
           ELSE /\ Respond(p, [NoResp EXCEPT !.status = 201, !.digest = req[p].hash])
                /\ UNCHANGED files
        /\ UNCHANGED <<backend, atomicWriter, presigning, after>>

(***************************************************************************)
(* download_asset: read_file, then the two get_download_url probes.        *)
(***************************************************************************)
\* req[p].probes counts the get_download_url calls the handler has made.
GetReadFile(p) ==
    LET data == files[BlobPath(req[p].hash)]
    IN  /\ req[p].pc = "read_file"
        /\ IF data = NoFile
           THEN Respond(p, [NoResp EXCEPT !.status = 404])
           ELSE /\ req' = [req EXCEPT ![p].pc = "probe", ![p].data = data]
                /\ UNCHANGED resp
        /\ UNCHANGED <<backend, atomicWriter, presigning, files, after>>

GetProbe(p) ==
    /\ req[p].pc = "probe"
    /\ IF GetDownloadUrl(req[p].hash) # NoUrl
       THEN /\ req' = [req EXCEPT ![p] = [NewReq EXCEPT !.kind = "get", !.pc = "done",
                                              !.hash = req[p].hash,
                                              !.probes = req[p].probes + 1]]
            /\ resp' = [resp EXCEPT ![p] = [NoResp EXCEPT !.status = 307,
                                                          !.location = GetDownloadUrl(req[p].hash)]]
       ELSE IF req[p].probes = 0
       THEN /\ req' = [req EXCEPT ![p].probes = 1]
            /\ UNCHANGED resp
       ELSE /\ req' = [req EXCEPT ![p] = [NewReq EXCEPT !.kind = "get", !.pc = "done",
                                              !.hash = req[p].hash, !.probes = 2]]
            /\ resp' = [resp EXCEPT ![p] = [NoResp EXCEPT !.status = 200,
                                                          !.bytes = req[p].data]]
    /\ UNCHANGED <<backend, atomicWriter, presigning, files, after>>

(***************************************************************************)
(* publish_manifest and get_manifest.                                      *)
(***************************************************************************)
\* The query strings of POST /manifest: no latest parameter, or one.
Queries == {"", "latest=true", "latest=false"}
\* Query<PublishParams>: latest is default_true() when the parameter is absent.
PublishParams(query) == [latest |-> IF query = "" THEN TRUE ELSE query = "latest=true"]

\* POST /manifest?latest=<latest> with a manifest as the JSON body: the
\* handler serialises it again and calls write_manifest(manifest.version).
\* FileSystemStorage writes with atomic_write, OpendalStorage with op.write.
StartPublish(p, m, query) ==
    Begin(p, [NewReq EXCEPT !.kind = "publish",
                            !.pc = IF backend = "fs" THEN "fs_open" ELSE "od_open",
                            !.body = ToVecPretty(m), !.todo = <<ToVecPretty(m)>>,
                            !.version = m.version, !.query = query,
                            !.latest = PublishParams(query).latest])

\* GET /manifest/{version}
StartGetManifest(p, version) ==
    Begin(p, [NewReq EXCEPT !.kind = "get_manifest", !.pc = "read_manifest",
                            !.version = version])

\* A get_manifest that returns whatever it read without validating it.
GetManifestResponseUnvalidated(fs, version) ==
    LET data == fs[ManifestPath(version)]
    IN  IF data = NoFile THEN [NoResp EXCEPT !.status = 404]
        ELSE [NoResp EXCEPT !.status = 200, !.json = FromSlice(data).value]

\* What get_manifest answers over the storage fs: read_file's NotFound is
\* 404, bytes that do not parse are 500, and the parsed JSON value is the
\* body of a 200.
GetManifestResponse(fs, version) ==
    LET data == fs[ManifestPath(version)]
    IN  IF data = NoFile THEN [NoResp EXCEPT !.status = 404]
        ELSE IF ~FromSlice(data).ok THEN [NoResp EXCEPT !.status = 500]
        ELSE [NoResp EXCEPT !.status = 200, !.json = FromSlice(data).value]

GetManifest(p) ==
    /\ req[p].pc = "read_manifest"
    /\ Respond(p, GetManifestResponse(files, req[p].version))
    /\ UNCHANGED <<backend, atomicWriter, presigning, files, after>>

\* write_manifest fails before it has written: fs::write of atomic_write
\* returns an I/O error (StorageError::Io), or op.write fails
\* (StorageError::Generic).  publish_manifest returns the error through `?`
\* (HTTP 500), whichever of its two writes it was.
WriteManifestFails(p) ==
    /\ req[p].kind = "publish"
    /\ req[p].pc \in {"fs_open", "od_open"}
    /\ Respond(p, [NoResp EXCEPT !.status = 500])
    /\ UNCHANGED <<backend, atomicWriter, presigning, files, after>>

(***************************************************************************)
(* Authentication and authorization: JwtService, JWTServiceAuthProvider,   *)
(* the AuthenticatedUser / ScopedUser extractors and POST /auth/token.     *)
(***************************************************************************)
READ == "read"
WRITE == "write"
ADMIN == "admin"
ASSET_UPLOAD == "asset:upload"
ASSET_DOWNLOAD == "asset:download"
MANIFEST_PUBLISH == "manifest:publish"
MANIFEST_READ == "manifest:download"
JOB_RUN == "job:run"
JOB_ATTACH == "job:attach"

\* The handlers that take a ScopedUser<T>, and T::SCOPE.
Endpoints == {"issue_token", "download_asset", "upload_asset", "upload_asset_stream",
              "get_manifest", "publish_manifest", "run", "attach"}
RequiredScope(e) ==
    CASE e = "issue_token" -> WRITE
      [] e = "download_asset" -> ASSET_DOWNLOAD
      [] e = "upload_asset" -> ASSET_UPLOAD
      [] e = "upload_asset_stream" -> ASSET_UPLOAD
      [] e = "get_manifest" -> MANIFEST_READ
      [] e = "publish_manifest" -> MANIFEST_PUBLISH
      [] e = "run" -> JOB_RUN
      [] e = "attach" -> JOB_ATTACH

\* u64 seconds.  The model keeps the arithmetic of a 31-bit unsigned word,
\* the widest whose sums the checker can form.
U64Max == 2147483647
\* Validation::default() of jsonwebtoken: the leeway, in seconds, granted on exp.
Leeway == 60
\* issue_token: duration_seconds.unwrap_or(31_536_000)
DefaultDuration == 31536000
\* The clock at start-up (unix seconds), how far one step of the clock
\* moves it, and how many steps it makes.
StartTime == 1762000000
TickStep == 61
MaxTicks == 2
\* Number of tokens POST /auth/token hands out.
MaxTokens == 1
\* Number of tokens minted in one sequence of POST /auth/token calls.
MaxChain == 2

AddU64(a, b) ==
    IF a > U64Max - b
    THEN [overflow |-> TRUE, value |-> a - (U64Max - b) - 1]
    ELSE [overflow |-> FALSE, value |-> a + b]

\* Scope lists that requests ask for and that identities carry.
ScopeLists == {<<>>, <<READ>>, <<WRITE>>, <<ADMIN>>, <<READ, ADMIN>>,
               <<MANIFEST_READ>>, <<READ, ASSET_UPLOAD>>}
Contains(list, x) == \E i \in 1..Len(list) : list[i] = x

\* Credentials: the value of the Authorization header after the "Bearer "
\* prefix is stripped; an absent header is the empty credential.
Cred(kind, name, sub, exp, scopes, sig) ==
    [kind |-> kind, name |-> name, sub |-> sub, exp |-> exp, scopes |-> scopes, sig |-> sig]
Absent == Cred("absent", "", "", 0, <<>>, "")
Garbage == Cred("garbage", "not-a-jwt", "", 0, <<>>, "")
\* A well-formed token signed with another key.
Forged == Cred("jwt", "", "mallory", U64Max, <<ADMIN>>, "forged")
Opaque(name) == Cred("opaque", name, "", 0, <<>>, "")
OpaqueNames == {"pat_admin", "pat_write", "pat_read"}
SignedToken(sub, exp, scopes) == Cred("jwt", "", sub, exp, scopes, "hs256")
IsEmpty(c) == c.kind = "absent"

NoUser == [id |-> "", scopes |-> <<>>]
AuthOk(u) == [ok |-> TRUE, user |-> u, err |-> ""]
AuthErr(e) == [ok |-> FALSE, user |-> NoUser, err |-> e]

\* JwtService::verify (the inherent method, which a call on a JwtService
\* resolves to): decode checks the signature, then exp.
JwtVerify(c, t) ==
    IF c.kind # "jwt" \/ c.sig # "hs256" THEN AuthErr("Invalid")
    ELSE IF c.exp < t - Leeway THEN AuthErr("Expired")
    ELSE AuthOk([id |-> c.sub, scopes |-> c.scopes])

\* <JwtService as JwtBackend>::verify, which a call through the JwtBackend
\* trait (S::Jwt) resolves to: the empty token is Missing, and every error of
\* decode is Invalid.
JwtBackendVerify(c, t) ==
    IF IsEmpty(c) THEN AuthErr("Missing")
    ELSE IF JwtVerify(c, t).ok THEN JwtVerify(c, t)
    ELSE AuthErr("Invalid")

\* AllowAllAuth::verify: any credential is the admin dev_user.
AllowAllVerify(c) == AuthOk([id |-> "dev_user", scopes |-> <<ADMIN, READ, WRITE>>])

\* A delegated provider that knows some opaque credentials.
DirectoryVerify(c) ==
    IF c.kind = "opaque" /\ c.name = "pat_admin" THEN AuthOk([id |-> "root", scopes |-> <<ADMIN>>])
    ELSE IF c.kind = "opaque" /\ c.name = "pat_write" THEN AuthOk([id |-> "ci", scopes |-> <<WRITE>>])
    ELSE IF c.kind = "opaque" /\ c.name = "pat_read" THEN AuthOk([id |-> "bob", scopes |-> <<READ>>])
    ELSE AuthErr("Invalid")

ProviderVerify(prov, c) == IF prov = "AllowAllAuth" THEN AllowAllVerify(c) ELSE DirectoryVerify(c)

\* ApiError::into_response for an AuthError.
AuthStatus(e) ==
    CASE e \in {"Invalid", "Expired", "Missing"} -> 401
      [] e = "Forbidden" -> 403
      [] e = "Unsupported" -> 501
      [] e = "System" -> 500

\* A scope test without the admin wildcard.
HasScopeExactOnly(scopes, required) ==
    \E i \in 1..Len(scopes) : scopes[i] = required

\* ScopedUser::from_request_parts: the scope test.
HasScope(scopes, required) ==
    \E i \in 1..Len(scopes) : scopes[i] = ADMIN \/ scopes[i] = required

NoBody == [scopes |-> <<>>, has_scopes |-> FALSE, duration |-> 0, has_duration |-> FALSE]
TokenBodies ==
    {[scopes |-> <<>>, has_scopes |-> FALSE, duration |-> d[2], has_duration |-> d[1]] :
        d \in {<<FALSE, 0>>, <<TRUE, 0>>, <<TRUE, U64Max>>}}
    \cup {[scopes |-> l, has_scopes |-> TRUE, duration |-> d[2], has_duration |-> d[1]] :
        l \in ScopeLists, d \in {<<FALSE, 0>>, <<TRUE, 0>>, <<TRUE, U64Max>>}}

NoToken == Absent
IdleAuthReq == [endpoint |-> "none", cred |-> Absent, body |-> NoBody, pc |-> "idle",
                identity |-> NoUser, user |-> NoUser, jwt |-> "none", providerCalls |-> 0,
                verifiedAt |-> 0, gate |-> "none", status |-> 0, token |-> NoToken,
                mintedAt |-> 0]

VARIABLES
    provider,        \* the delegated AuthProvider: "AllowAllAuth" or "Directory"
    permissions,     \* the PermissionService: "NoPermissionService" or "Configured"
    overflowChecks,  \* the build panics on integer overflow (else it wraps)
    now,             \* SystemTime::now() in unix seconds
    minted,          \* the tokens POST /auth/token has returned
    areq             \* the request in the extractors or the handler

authVars == <<provider, permissions, overflowChecks, now, minted, areq>>

InitAuth ==
    /\ provider \in {"AllowAllAuth", "Directory"}
    /\ permissions \in {"NoPermissionService", "Configured"}
    /\ overflowChecks \in BOOLEAN
    /\ now = StartTime
    /\ minted = {}
    /\ areq = IdleAuthReq

\* A request arrives with some credential.
AuthBegin(e, c, b) ==
    /\ areq.pc = "idle"
    /\ (e = "issue_token") => Cardinality(minted) < MaxTokens
    /\ areq' = [IdleAuthReq EXCEPT !.endpoint = e, !.cred = c, !.body = b, !.pc = "verify"]
    /\ UNCHANGED <<provider, permissions, overflowChecks, now, minted>>

\* A POST /auth/token of a sequence of calls: each call presents a
\* credential of the caller the sequence starts from, or a token that an
\* earlier call of the sequence returned.
ChainBegin(roots, c, b) ==
    /\ areq.pc = "idle"
    /\ c \in roots \cup minted
    /\ Cardinality(minted) < MaxChain \/ c \in minted
    /\ areq' = [IdleAuthReq EXCEPT !.endpoint = "issue_token", !.cred = c, !.body = b,
                                   !.pc = "verify"]
    /\ UNCHANGED <<provider, permissions, overflowChecks, now, minted>>

\* The extractor or the handler fails with an AuthError.
AuthFail(e, r) == [r EXCEPT !.pc = "done", !.status = AuthStatus(e)]

\* A layered verify that hands an expired token to the provider as well.
LayeredVerifyFallsThrough(r, t) ==
    IF IsEmpty(r.cred) THEN AuthFail("Missing", r)
    ELSE LET v == JwtVerify(r.cred, t)
         IN  IF v.ok THEN [r EXCEPT !.jwt = "Ok", !.identity = v.user, !.user = v.user,
                                    !.verifiedAt = t, !.pc = "elevate"]
             ELSE [r EXCEPT !.jwt = v.err, !.verifiedAt = t, !.pc = "provider"]

\* JWTServiceAuthProvider::verify up to the call of the provider.
LayeredVerifyStep(r, t) ==
    IF IsEmpty(r.cred) THEN AuthFail("Missing", r)
    ELSE LET v == JwtVerify(r.cred, t)
         IN  IF v.ok THEN [r EXCEPT !.jwt = "Ok", !.identity = v.user, !.user = v.user,
                                    !.verifiedAt = t, !.pc = "elevate"]
             ELSE IF v.err = "Expired"
             THEN [AuthFail("Expired", r) EXCEPT !.jwt = "Expired", !.verifiedAt = t]
             ELSE [r EXCEPT !.jwt = v.err, !.verifiedAt = t, !.pc = "provider"]

LayeredVerify ==
    /\ areq.pc = "verify"
    /\ areq' = LayeredVerifyStep(areq, now)
    /\ UNCHANGED <<provider, permissions, overflowChecks, now, minted>>

\* A delegation that asks the provider again after it refused.
DelegateVerifyRetries ==
    /\ areq.pc = "provider"
    /\ LET v == ProviderVerify(provider, areq.cred)
           r == [areq EXCEPT !.providerCalls = @ + 1]
       IN  areq' = IF v.ok THEN [r EXCEPT !.identity = v.user, !.user = v.user, !.pc = "elevate"]
                   ELSE IF r.providerCalls < 2 THEN r
                   ELSE AuthFail(v.err, r)
    /\ UNCHANGED <<provider, permissions, overflowChecks, now, minted>>

\* self.provider.verify(token).await, whose verdict is returned.
DelegateVerify ==
    /\ areq.pc = "provider"
    /\ LET v == ProviderVerify(provider, areq.cred)
           r == [areq EXCEPT !.providerCalls = @ + 1]
       IN  areq' = IF v.ok THEN [r EXCEPT !.identity = v.user, !.user = v.user, !.pc = "elevate"]
                   ELSE AuthFail(v.err, r)
    /\ UNCHANGED <<provider, permissions, overflowChecks, now, minted>>

\* permissions.elevate(user): without a configured service the identity
\* passes through; a configured one rewrites the scopes or fails.
Elevate ==
    /\ areq.pc = "elevate"
    /\ \/ /\ permissions = "NoPermissionService"
          /\ areq' = [areq EXCEPT !.pc = "scope"]
       \/ /\ permissions = "Configured"
          /\ \E l \in ScopeLists : areq' = [areq EXCEPT !.pc = "scope", !.user.scopes = l]
       \/ /\ permissions = "Configured"
          /\ areq' = AuthFail("System", areq)
    /\ UNCHANGED <<provider, permissions, overflowChecks, now, minted>>

\* A scope gate that tests the scopes the credential was verified with.
ScopeGateBeforeElevation(r) ==
    IF HasScope(r.identity.scopes, RequiredScope(r.endpoint))
    THEN [r EXCEPT !.gate = "passed", !.pc = "handler"]
    ELSE [AuthFail("Forbidden", r) EXCEPT !.gate = "rejected"]

\* ScopedUser::from_request_parts after AuthenticatedUser was extracted.
ScopeGateStep(r) ==
    IF HasScope(r.user.scopes, RequiredScope(r.endpoint))
    THEN [r EXCEPT !.gate = "passed", !.pc = "handler"]
    ELSE [AuthFail("Forbidden", r) EXCEPT !.gate = "rejected"]

ScopeGate ==
    /\ areq.pc = "scope"
    /\ areq' = ScopeGateStep(areq)
    /\ UNCHANGED <<provider, permissions, overflowChecks, now, minted>>

\* JwtBackend::mint of JwtService: exp = now + duration_seconds in u64.  The
\* sum panics in a build with overflow checks and wraps in one without.
Mint(subject, scopes, duration, t, checks) ==
    LET sum == AddU64(t, duration)
    IN  IF sum.overflow /\ checks
        THEN [panicked |-> TRUE, token |-> NoToken]
        ELSE [panicked |-> FALSE, token |-> SignedToken(subject, sum.value, scopes)]

\* An issue_token whose elevation rule refuses admin only.
IssueTokenStepAdminOnly(r, t, checks) ==
    LET scopes   == IF r.body.has_scopes THEN r.body.scopes ELSE <<READ>>
        is_admin == \E i \in 1..Len(r.user.scopes) : r.user.scopes[i] = ADMIN
        refused  == \E i \in 1..Len(scopes) : scopes[i] = ADMIN
        duration == IF r.body.has_duration THEN r.body.duration ELSE DefaultDuration
        m        == Mint("x", scopes, duration, t, checks)
    IN  IF ~is_admin /\ refused THEN AuthFail("Forbidden", r)
        ELSE IF m.panicked THEN [r EXCEPT !.pc = "done", !.status = 0]
        ELSE [r EXCEPT !.pc = "done", !.status = 200, !.token = m.token, !.mintedAt = t]

\* issue_token: the requested scopes, the elevation rule, the mint.
IssueTokenStep(r, t, checks) ==
    LET scopes   == IF r.body.has_scopes THEN r.body.scopes ELSE <<READ>>
        is_admin == \E i \in 1..Len(r.user.scopes) : r.user.scopes[i] = ADMIN
        refused  == \E i \in 1..Len(scopes) : scopes[i] \in {ADMIN, WRITE}
        duration == IF r.body.has_duration THEN r.body.duration ELSE DefaultDuration
        m        == Mint("x", scopes, duration, t, checks)
    IN  IF ~is_admin /\ refused THEN AuthFail("Forbidden", r)
        ELSE IF m.panicked THEN [r EXCEPT !.pc = "done", !.status = 0]
        ELSE [r EXCEPT !.pc = "done", !.status = 200, !.token = m.token, !.mintedAt = t]

IssueToken ==
    /\ areq.pc = "handler"
    /\ areq.endpoint = "issue_token"
    /\ areq' = IssueTokenStep(areq, now, overflowChecks)
    /\ minted' = IF areq'.status = 200 THEN minted \cup {areq'.token} ELSE minted
    /\ UNCHANGED <<provider, permissions, overflowChecks, now>>

\* Any other handler behind a scope gate runs its body.
RunHandler ==
    /\ areq.pc = "handler"
    /\ areq.endpoint # "issue_token"
    /\ areq' = [areq EXCEPT !.pc = "done", !.status = 200]
    /\ UNCHANGED <<provider, permissions, overflowChecks, now, minted>>

\* The response is sent and the request is over.
AuthEnd ==
    /\ areq.pc = "done"
    /\ areq' = IdleAuthReq
    /\ UNCHANGED <<provider, permissions, overflowChecks, now, minted>>

Tick ==
    /\ now < StartTime + MaxTicks * TickStep
    /\ now' = now + TickStep
    /\ UNCHANGED <<provider, permissions, overflowChecks, minted, areq>>

\* The two verify entry points of the token service, called on their own.
VerifyEntries == {"JwtService::verify", "JwtBackend::verify"}
\* The exp claims of the tokens presented to them, around the clock.
TokenExps == {StartTime - 1, StartTime + TickStep, U64Max}
Tokens == {SignedToken(sub, exp, scopes) :
              sub \in {"alice"}, exp \in TokenExps, scopes \in ScopeLists}
VerifyCall(entry, c) ==
    /\ areq.pc = "idle"
    /\ LET v == IF entry = "JwtService::verify" THEN JwtVerify(c, now)
                ELSE JwtBackendVerify(c, now)
       IN  areq' = [IdleAuthReq EXCEPT !.endpoint = entry, !.cred = c, !.pc = "done",
                                       !.jwt = IF v.ok THEN "Ok" ELSE v.err,
                                       !.identity = v.user, !.verifiedAt = now]
    /\ UNCHANGED <<provider, permissions, overflowChecks, now, minted>>

(***************************************************************************)
(* Attach: handle_attach_socket multiplexes the log stream of the compute  *)
(* port and the client's WebSocket.  The log stream is that of             *)
(* AwsBatchBackend::attach: stream::unfold over a LogStreamState, which    *)
(* polls describe_jobs and get_log_events.                                 *)
(***************************************************************************)
\* Log events the job writes to its CloudWatch stream.
MaxEvents == 2
\* Most events get_log_events returns in one page.
MaxPage == 2
\* Frames the client sends during the session.
MaxInbound == 1
\* Err items and text frames of a session that the histories keep; the
\* session itself can yield and send any number.
MaxStreamErrors == 2
\* if state.error_count > 15
RetryBudget == 15

NoName == ""

\* The results of a backend call: Ok, or the SdkError it failed with.
DescribeErrors == {"TimeoutError", "DispatchFailure", "ServiceError"}
FetchErrors == {"DispatchFailure", "TimeoutError", "ResponseError",
                "ServiceUnavailableException", "ResourceNotFoundException",
                "InvalidParameterException", "OtherServiceError5xx", "OtherServiceError4xx"}
\* matches!(e, SdkError::TimeoutError(_) | SdkError::DispatchFailure(_))
TransientDescribe(e) == e \in {"TimeoutError", "DispatchFailure"}
\* A retry predicate that takes every failure of a fetch for transient.
ShouldRetryAnything(e) == e \in FetchErrors

\* should_retry
ShouldRetry(e) ==
    CASE e \in {"DispatchFailure", "TimeoutError"} -> TRUE
      [] e = "ServiceUnavailableException" -> TRUE
      [] e = "ResourceNotFoundException" -> TRUE
      [] e = "InvalidParameterException" -> FALSE
      [] e = "OtherServiceError5xx" -> TRUE
      [] e = "OtherServiceError4xx" -> FALSE
      [] OTHER -> FALSE
Called(api, result) == [api |-> api, result |-> result]
NoCall == Called("none", "")
NoNextToken == -1
Terminal(status) == status \in {"SUCCEEDED", "FAILED"}

\* chrono::Utc.timestamp_millis_opt(ts).unwrap().to_rfc3339()
ToRfc3339(ts) == [rfc3339 |-> ts]
\* The LogOutput pushed for one event of a page.
ToLogOutput(event) ==
    [source |-> "Stdout", timestamp |-> ToRfc3339(event.timestamp),
     message |-> <<event.message, "\n">>]
NoLog == [source |-> "", timestamp |-> ToRfc3339(0), message |-> <<"", "">>]

\* What compute_stream.next() resolves to.
ItemOk(log) == [tag |-> "Ok", log |-> log, err |-> ""]
\* The Err of a failed call is System(e.to_string()); the model keeps which
\* call failed, and the call's error in outcome.
ItemErr(e) == [tag |-> "Err", log |-> NoLog, err |-> e]
ItemNone == [tag |-> "None", log |-> NoLog, err |-> ""]
Pending == [tag |-> "Pending", log |-> NoLog, err |-> ""]

\* WebSocket messages.  serde_json::to_vec(&log_output) of a LogOutput
\* (an enum, an optional string and a string) has no failing case.
ToVec(log) == [json |-> log]
Binary(bytes) == [type |-> "Binary", bytes |-> bytes, text |-> ""]
\* A text frame that leaves the description out.
TextWithoutDescription(t) == [type |-> "Text", bytes |-> ToVec(NoLog), text |-> <<>>]

Text(t) == [type |-> "Text", bytes |-> ToVec(NoLog), text |-> t]
Close == [type |-> "Close", bytes |-> ToVec(NoLog), text |-> ""]
InboundFrames == {"Close", "Ping", "Pong", "Text", "Binary"}

VARIABLES
    job,       \* the AWS Batch job as describe_jobs reports it
    cwlog,     \* the events of the job's CloudWatch log stream
    ls,        \* the LogStreamState of the unfold, and where its future waits
    mux,       \* handle_attach_socket: its position and the item it took
    sock,      \* the WebSocket: connection state, frames sent, frames read (how many, the last)
    yielded,   \* history: the Ok records compute_stream.next() has resolved to
    errors,    \* history: how many Err items it has resolved to
    outcome    \* history: the backend call the closure's last step made, and its result

attachVars == <<job, cwlog, ls, mux, sock, yielded, errors, outcome>>

InitAttach ==
    /\ job = [status |-> "RUNNABLE", log_stream_name |-> NoName]
    /\ cwlog = <<>>
    /\ ls = [log_stream_name |-> NoName, next_token |-> NoNextToken, buffer |-> <<>>,
             finished |-> FALSE, error_count |-> 0, pc |-> "top"]
    /\ mux = [pc |-> "attach", maybe_log |-> Pending, exit |-> "none"]
    /\ sock = [open |-> TRUE, sent |-> <<>>, inbound |-> 0, frame |-> ""]
    /\ yielded = <<>>
    /\ errors = 0
    /\ outcome = NoCall

(***************************************************************************)
(* The job and its log, as AWS Batch and CloudWatch Logs present them.     *)
(***************************************************************************)
JobStarts ==
    /\ job.status = "RUNNABLE"
    /\ job' = [status |-> "RUNNING", log_stream_name |-> "default/job/1"]
    /\ UNCHANGED <<cwlog, ls, mux, sock, yielded, errors, outcome>>

JobLogs ==
    /\ job.status = "RUNNING"
    /\ Len(cwlog) < MaxEvents
    /\ cwlog' = Append(cwlog, [timestamp |-> Len(cwlog) + 1, message |-> "line"])
    /\ UNCHANGED <<job, ls, mux, sock, yielded, errors, outcome>>

JobEnds ==
    /\ ~Terminal(job.status)
    /\ \E st \in {"SUCCEEDED", "FAILED"} : job' = [job EXCEPT !.status = st]
    /\ UNCHANGED <<cwlog, ls, mux, sock, yielded, errors, outcome>>

(***************************************************************************)
(* The unfold closure.  It runs while the select of the attach loop polls  *)
(* compute_stream.next(); the state lives in the stream, so a poll the     *)
(* select abandons loses nothing.                                          *)
(***************************************************************************)
Polling == mux.pc = "loop"

\* The closure returns: Some((item, state)) or None.
Return(s, item) ==
    /\ ls' = s
    /\ mux' = [mux EXCEPT !.pc = "item", !.maybe_log = item]
    /\ yielded' = IF item.tag = "Ok" THEN Append(yielded, item.log) ELSE yielded
    /\ errors' = IF item.tag = "Err" /\ errors < MaxStreamErrors THEN errors + 1 ELSE errors
    /\ UNCHANGED <<job, cwlog, sock>>

\* The closure awaits a call or a sleep.
Await(s) ==
    /\ ls' = s
    /\ UNCHANGED <<job, cwlog, mux, sock, yielded, errors>>

\* The head of the loop: the budget, the buffer, the finished flag.
UnfoldBudget ==
    /\ Polling /\ ls.pc = "top"
    /\ ls.error_count > RetryBudget
    /\ Return(ls, ItemErr("Too many transient errors"))
    /\ outcome' = NoCall

\* A head of the loop that emits the newest buffered record.
UnfoldPopNewest ==
    /\ Polling /\ ls.pc = "top"
    /\ ls.error_count <= RetryBudget
    /\ ls.buffer # <<>>
    /\ Return([ls EXCEPT !.buffer = SubSeq(@, 1, Len(@) - 1)], ItemOk(ls.buffer[Len(ls.buffer)]))
    /\ outcome' = NoCall

UnfoldPop ==
    /\ Polling /\ ls.pc = "top"
    /\ ls.error_count <= RetryBudget
    /\ ls.buffer # <<>>
    /\ Return([ls EXCEPT !.buffer = Tail(@)], ItemOk(Head(ls.buffer)))
    /\ outcome' = NoCall

UnfoldFinished ==
    /\ Polling /\ ls.pc = "top"
    /\ ls.error_count <= RetryBudget
    /\ ls.buffer = <<>>
    /\ ls.finished
    /\ Return([ls EXCEPT !.pc = "ended"], ItemNone)
    /\ outcome' = NoCall

AtCall ==
    /\ Polling /\ ls.pc = "top"
    /\ ls.error_count <= RetryBudget
    /\ ls.buffer = <<>>
    /\ ~ls.finished

\* describe_jobs while the log stream's name is unknown.
DescribeJobs ==
    /\ AtCall
    /\ ls.log_stream_name = NoName
    /\ \/ /\ outcome' = Called("describe_jobs", "Ok")
          /\ LET s == [ls EXCEPT !.error_count = 0,
                                 !.finished = Terminal(job.status),
                                 !.log_stream_name = job.log_stream_name]
             IN  IF s.log_stream_name = NoName
                 THEN IF s.finished THEN Return([s EXCEPT !.pc = "ended"], ItemNone)
                      ELSE Await([s EXCEPT !.pc = "sleep"])
                 ELSE Await([s EXCEPT !.pc = "fetch"])
       \/ \E e \in DescribeErrors :
             /\ outcome' = Called("describe_jobs", e)
             /\ IF TransientDescribe(e)
                THEN Await([ls EXCEPT !.error_count = @ + 1, !.pc = "sleep"])
                ELSE Return(ls, ItemErr("describe_jobs"))

\* get_log_events from the head or from next_token.
GetLogEvents ==
    /\ \/ AtCall /\ ls.log_stream_name # NoName
       \/ Polling /\ ls.pc = "fetch"
    /\ \/ /\ outcome' = Called("get_log_events", "Ok")
          /\ LET pos == IF ls.next_token = NoNextToken THEN 0 ELSE ls.next_token
                 rest == Len(cwlog) - pos
             IN  \E k \in 0..(IF rest < MaxPage THEN rest ELSE MaxPage) :
                   LET events == SubSeq(cwlog, pos + 1, pos + k)
                       s == [ls EXCEPT !.error_count = 0]
                   IN  IF events = <<>>
                       THEN IF ~s.finished THEN Await([s EXCEPT !.pc = "recheck"])
                            ELSE Return([s EXCEPT !.pc = "ended"], ItemNone)
                       ELSE Await([s EXCEPT !.next_token = pos + k,
                                            !.buffer = @ \o [i \in 1..k |-> ToLogOutput(events[i])],
                                            !.pc = "top"])
       \/ \E e \in FetchErrors :
             /\ outcome' = Called("get_log_events", e)
             /\ IF ShouldRetry(e)
                THEN Await([ls EXCEPT !.error_count = @ + 1, !.pc = "sleep"])
                ELSE Return([ls EXCEPT !.pc = "top"], ItemErr("get_log_events"))

\* The describe_jobs after an empty page of a job not known to be finished;
\* its error is ignored.
Recheck ==
    /\ Polling /\ ls.pc = "recheck"
    /\ \E result \in {"Ok"} \cup DescribeErrors :
         /\ outcome' = Called("describe_jobs (re-check)", result)
         /\ LET s == [ls EXCEPT !.finished = result = "Ok" /\ Terminal(job.status)]
            IN  IF s.finished THEN Return([s EXCEPT !.pc = "ended"], ItemNone)
                ELSE Await([s EXCEPT !.pc = "sleep"])

\* tokio::time::sleep(2 s) is over; continue.
Wake ==
    /\ Polling /\ ls.pc = "sleep"
    /\ Await([ls EXCEPT !.pc = "top"])
    /\ outcome' = NoCall

(***************************************************************************)
(* handle_attach_socket.                                                   *)
(***************************************************************************)
\* socket.send(msg): the frame goes out unless the connection is gone.  Of
\* the text frames, sent keeps the first MaxStreamErrors.
Texts(sent) == SelectSeq(sent, LAMBDA f : f.type = "Text")
Send(s, msg) ==
    IF s.open /\ (msg.type = "Text" => Len(Texts(s.sent)) < MaxStreamErrors)
    THEN [s EXCEPT !.sent = Append(@, msg)]
    ELSE s

\* Leaving the loop without a Close frame.
BreakWithoutClose(m, s, why) ==
    [mux |-> [m EXCEPT !.pc = "closed", !.maybe_log = Pending, !.exit = why], sock |-> s]

\* Leaving the loop: the Close frame is sent, its error ignored.
Break(m, s, why) ==
    [mux |-> [m EXCEPT !.pc = "closed", !.maybe_log = Pending, !.exit = why],
     sock |-> Send(s, Close)]
Continue(m, s) ==
    [mux |-> [m EXCEPT !.pc = "loop", !.maybe_log = Pending], sock |-> s]

\* A log branch that goes on after a send that failed.
OnLogIgnoresSendError(m, s) ==
    CASE m.maybe_log.tag = "Ok" -> Continue(m, Send(s, Binary(ToVec(m.maybe_log.log))))
      [] m.maybe_log.tag = "Err" -> Continue(m, Send(s, Text(<<"Stream Error: ", m.maybe_log.err>>)))
      [] m.maybe_log.tag = "None" -> Break(m, s, "source")

\* The branch of the select taken when compute_stream.next() resolved.
OnLog(m, s) ==
    CASE m.maybe_log.tag = "Ok" ->
            IF s.open THEN Continue(m, Send(s, Binary(ToVec(m.maybe_log.log))))
            ELSE Break(m, s, "send")
      [] m.maybe_log.tag = "Err" -> Continue(m, Send(s, Text(<<"Stream Error: ", m.maybe_log.err>>)))
      [] m.maybe_log.tag = "None" -> Break(m, s, "source")

\* state.compute().attach(&id): AwsBatchBackend builds the stream and
\* returns Ok.
Attach ==
    /\ mux.pc = "attach"
    /\ mux' = [mux EXCEPT !.pc = "loop"]
    /\ UNCHANGED <<job, cwlog, ls, sock, yielded, errors, outcome>>

MuxLog ==
    /\ mux.pc = "item"
    /\ LET r == OnLog(mux, sock)
       IN  mux' = r.mux /\ sock' = r.sock
    /\ UNCHANGED <<job, cwlog, ls, yielded, errors, outcome>>

\* A recv branch that answers a Ping itself.
MuxRecvAnswersPing(frame) ==
    /\ mux.pc = "loop"
    /\ sock.open
    /\ sock.inbound < MaxInbound
    /\ LET s == [sock EXCEPT !.inbound = @ + 1, !.frame = frame]
           r == IF frame = "Close" THEN Break(mux, s, "client")
                ELSE IF frame = "Ping"
                THEN Continue(mux, Send(s, [type |-> "Pong", bytes |-> ToVec(NoLog), text |-> ""]))
                ELSE Continue(mux, s)
       IN  mux' = r.mux /\ sock' = r.sock
    /\ UNCHANGED <<job, cwlog, ls, yielded, errors, outcome>>

\* The branch taken when socket.recv() resolved to a frame.
MuxRecv(frame) ==
    /\ mux.pc = "loop"
    /\ sock.open
    /\ sock.inbound < MaxInbound
    /\ LET s == [sock EXCEPT !.inbound = @ + 1, !.frame = frame]
           r == IF frame = "Close" THEN Break(mux, s, "client") ELSE Continue(mux, s)
       IN  mux' = r.mux /\ sock' = r.sock
    /\ UNCHANGED <<job, cwlog, ls, yielded, errors, outcome>>

\* socket.recv() resolved to Some(Err(_)) or None.
MuxRecvError ==
    /\ mux.pc = "loop"
    /\ ~sock.open
    /\ LET r == Break(mux, sock, "recv")
       IN  mux' = r.mux /\ sock' = r.sock
    /\ UNCHANGED <<job, cwlog, ls, yielded, errors, outcome>>

\* The connection is lost.
Disconnect ==
    /\ mux.pc # "closed"
    /\ sock.open
    /\ sock' = [sock EXCEPT !.open = FALSE]
    /\ UNCHANGED <<job, cwlog, ls, mux, yielded, errors, outcome>>

(***************************************************************************)
(* The error mapper: ApiError::into_response, over the error enums of      *)
(* aquila_core::error.                                                     *)
(***************************************************************************)
\* Largest message carried by an error (the String of NotFound(String), the
\* text of an io::Error, ...).
MaxMessage == 3
Messages == 0..MaxMessage
NoMessage == -1

StorageKinds == {"Io", "Serialization", "NotFound", "InvalidRequest", "System", "Unsupported"}
AuthKinds == {"Invalid", "Expired", "Missing", "Forbidden", "System", "Unsupported"}
ComputeKinds == {"InvalidRequest", "NotFound", "System", "Unsupported"}
\* The AuthError kinds without a payload.
UnitKinds == {"Invalid", "Expired", "Missing"}

\* What a handler can return as Err: one of the three enums, or any other
\* error that converts into anyhow::Error (a serde_json::Error, say).
ApiErrors ==
    [family : {"StorageError"}, kind : StorageKinds, message : Messages]
    \cup [family : {"AuthError"}, kind : AuthKinds \ UnitKinds, message : Messages]
    \cup [family : {"AuthError"}, kind : UnitKinds, message : {NoMessage}]
    \cup [family : {"ComputeError"}, kind : ComputeKinds, message : Messages]
    \cup [family : {"anyhow"}, kind : {"other"}, message : Messages]

\* err.to_string(): the #[error("...")] format of the variant with its payload.
Display(err) == [display |-> <<err.family, err.kind>>, arg |-> err.message]
\* A fixed body.
Fixed(text) == [display |-> <<"fixed", text>>, arg |-> NoMessage]
\* format!("Invalid Request: {}", err)
InvalidRequestBody(err) == [display |-> <<"Invalid Request: {}", err.family, err.kind>>,
                            arg |-> err.message]

StorageResponse(err) ==
    CASE err.kind = "NotFound" -> [status |-> 404, body |-> Display(err)]
      [] err.kind = "Unsupported" -> [status |-> 501, body |-> Display(err)]
      [] OTHER -> [status |-> 500, body |-> Fixed("Storage Error")]

ComputeResponse(err) ==
    CASE err.kind = "NotFound" -> [status |-> 404, body |-> Display(err)]
      [] err.kind = "Unsupported" -> [status |-> 501, body |-> Display(err)]
      [] err.kind = "InvalidRequest" -> [status |-> 400, body |-> InvalidRequestBody(err)]
      [] err.kind = "System" -> [status |-> 500, body |-> Fixed("Compute Error")]

\* An error mapper that answers every authentication failure alike.
AuthResponseAll401(err) == [status |-> 401, body |-> Display(err)]

AuthResponse(err) ==
    CASE err.kind \in {"Invalid", "Expired", "Missing"} -> [status |-> 401, body |-> Display(err)]
      [] err.kind = "Forbidden" -> [status |-> 403, body |-> Display(err)]
      [] err.kind = "Unsupported" -> [status |-> 501, body |-> Display(err)]
      [] err.kind = "System" -> [status |-> 500, body |-> Fixed("Auth Error")]

\* The downcast chain of into_response.
IntoResponse(err) ==
    IF err.family = "StorageError" THEN StorageResponse(err)
    ELSE IF err.family = "ComputeError" THEN ComputeResponse(err)
    ELSE IF err.family = "AuthError" THEN AuthResponse(err)
    ELSE [status |-> 500, body |-> Fixed("Internal Server Error")]

NoHttpResponse == [status |-> 0, body |-> Fixed("")]

VARIABLES
    apiError,       \* the Err a handler returned
    httpResponse    \* the response axum made of it

errorVars == <<apiError, httpResponse>>

InitError ==
    /\ apiError \in ApiErrors
    /\ httpResponse = NoHttpResponse

\* axum turns the handler's Err(ApiError) into the response.
MapError ==
    /\ httpResponse = NoHttpResponse
    /\ httpResponse' = IntoResponse(apiError)
    /\ UNCHANGED apiError

(***************************************************************************)
(* The specifications.  Each runs one part of the server; the variables of *)
(* the other parts rest.                                                   *)
(***************************************************************************)
vars == <<backend, atomicWriter, presigning, files, req, resp, after,
          provider, permissions, overflowChecks, now, minted, areq,
          job, cwlog, ls, mux, sock, yielded, errors, outcome,
          apiError, httpResponse>>

RestStorage ==
    /\ backend = "fs"
    /\ atomicWriter = TRUE
    /\ presigning = FALSE
    /\ files = [p \in Paths |-> NoFile]
    /\ req = [p \in Reqs |-> NewReq]
    /\ resp = [p \in Reqs |-> NoResp]
    /\ after = [p \in Reqs |-> {}]

RestAuth ==
    /\ provider = "Directory"
    /\ permissions = "NoPermissionService"
    /\ overflowChecks = FALSE
    /\ now = StartTime
    /\ minted = {}
    /\ areq = IdleAuthReq

RestAttach == InitAttach

RestError ==
    /\ apiError = [family |-> "anyhow", kind |-> "other", message |-> 0]
    /\ httpResponse = NoHttpResponse

Init == InitStorage /\ RestAuth /\ RestAttach /\ RestError
Next ==
    \/ \E p \in Reqs, b \in Bodies : StartPost(p, b) /\ UNCHANGED <<authVars, attachVars, errorVars>>
    \/ \E p \in Reqs, h \in Hashes, b \in Bodies :
          StartPut(p, h, b) /\ UNCHANGED <<authVars, attachVars, errorVars>>
    \/ \E p \in Reqs, h \in Hashes : StartGet(p, h) /\ UNCHANGED <<authVars, attachVars, errorVars>>
    \/ \E p \in Reqs : Forget(p) /\ UNCHANGED <<authVars, attachVars, errorVars>>
    \/ \E p \in Reqs : WriteStreamUnsupported(p) /\ UNCHANGED <<authVars, attachVars, errorVars>>
    \/ \E p \in Reqs : WriteExists(p) /\ UNCHANGED <<authVars, attachVars, errorVars>>
    \/ \E p \in Reqs : FsOpenTmp(p) /\ UNCHANGED <<authVars, attachVars, errorVars>>
    \/ \E p \in Reqs : FsWriteAll(p) /\ UNCHANGED <<authVars, attachVars, errorVars>>
    \/ \E p \in Reqs : FsRename(p) /\ UNCHANGED <<authVars, attachVars, errorVars>>
    \/ \E p \in Reqs : OdOpen(p) /\ UNCHANGED <<authVars, attachVars, errorVars>>
    \/ \E p \in Reqs : OdWrite(p) /\ UNCHANGED <<authVars, attachVars, errorVars>>
    \/ \E p \in Reqs : OdClose(p) /\ UNCHANGED <<authVars, attachVars, errorVars>>
    \/ \E p \in Reqs : PutVerify(p) /\ UNCHANGED <<authVars, attachVars, errorVars>>
    \/ \E p \in Reqs : GetReadFile(p) /\ UNCHANGED <<authVars, attachVars, errorVars>>
    \/ \E p \in Reqs : GetProbe(p) /\ UNCHANGED <<authVars, attachVars, errorVars>>
Spec == Init /\ [][Next]_vars

\* The asset API with body streams that can break off.
NextStreamSpec ==
    \/ Next
    \/ \E p \in Reqs : OdStreamFails(p) /\ UNCHANGED <<authVars, attachVars, errorVars>>
SpecStream == Init /\ [][NextStreamSpec]_vars

\* The asset endpoints called with {hash} values that hold a slash, next to
\* POST /manifest: GET /assets/{hash} and PUT /assets/stream/{hash} as
\* concurrent handler tasks over one storage.
HashParams == SlashParams \cup {DeadBeef}
NextPathSpec ==
    \/ \E p \in Reqs, h \in HashParams, b \in Bodies :
          StartPut(p, h, b) /\ UNCHANGED <<authVars, attachVars, errorVars>>
    \/ \E p \in Reqs, h \in HashParams : StartGet(p, h) /\ UNCHANGED <<authVars, attachVars, errorVars>>
    \/ \E p \in Reqs, m \in Manifests :
          StartPublish(p, m, "latest=true") /\ UNCHANGED <<authVars, attachVars, errorVars>>
    \/ \E p \in Reqs : WriteStreamUnsupported(p) /\ UNCHANGED <<authVars, attachVars, errorVars>>
    \/ \E p \in Reqs : WriteExists(p) /\ UNCHANGED <<authVars, attachVars, errorVars>>
    \/ \E p \in Reqs : FsOpenTmp(p) /\ UNCHANGED <<authVars, attachVars, errorVars>>
    \/ \E p \in Reqs : FsWriteAll(p) /\ UNCHANGED <<authVars, attachVars, errorVars>>
    \/ \E p \in Reqs : FsRename(p) /\ UNCHANGED <<authVars, attachVars, errorVars>>
    \/ \E p \in Reqs : OdOpen(p) /\ UNCHANGED <<authVars, attachVars, errorVars>>
    \/ \E p \in Reqs : OdWrite(p) /\ UNCHANGED <<authVars, attachVars, errorVars>>
    \/ \E p \in Reqs : OdClose(p) /\ UNCHANGED <<authVars, attachVars, errorVars>>
    \/ \E p \in Reqs : PutVerify(p) /\ UNCHANGED <<authVars, attachVars, errorVars>>
    \/ \E p \in Reqs : GetReadFile(p) /\ UNCHANGED <<authVars, attachVars, errorVars>>
    \/ \E p \in Reqs : GetProbe(p) /\ UNCHANGED <<authVars, attachVars, errorVars>>
InitPathSpec == Init /\ ~presigning
SpecPath == InitPathSpec /\ [][NextPathSpec]_vars

\* The credentials a client can present.
Presented == {Absent, Garbage, Forged} \cup {Opaque(n) : n \in OpaqueNames} \cup minted

InitAuthSpec == InitAuth /\ RestStorage /\ RestAttach /\ RestError
NextAuthSpec ==
    \/ \E e \in Endpoints \ {"issue_token"}, c \in Presented :
          AuthBegin(e, c, NoBody) /\ UNCHANGED <<storageVars, attachVars, errorVars>>
    \/ \E c \in Presented, b \in TokenBodies :
          AuthBegin("issue_token", c, b) /\ UNCHANGED <<storageVars, attachVars, errorVars>>
    \/ LayeredVerify /\ UNCHANGED <<storageVars, attachVars, errorVars>>
    \/ DelegateVerify /\ UNCHANGED <<storageVars, attachVars, errorVars>>
    \/ Elevate /\ UNCHANGED <<storageVars, attachVars, errorVars>>
    \/ ScopeGate /\ UNCHANGED <<storageVars, attachVars, errorVars>>
    \/ IssueToken /\ UNCHANGED <<storageVars, attachVars, errorVars>>
    \/ RunHandler /\ UNCHANGED <<storageVars, attachVars, errorVars>>
    \/ AuthEnd /\ UNCHANGED <<storageVars, attachVars, errorVars>>
    \/ Tick /\ UNCHANGED <<storageVars, attachVars, errorVars>>
SpecAuth == InitAuthSpec /\ [][NextAuthSpec]_vars

\* Sequences of POST /auth/token calls of callers that hold no admin scope:
\* a server without a permission service, whose provider knows the callers
\* by their personal access tokens.  Each call presents such a credential,
\* no usable credential, or a token an earlier call returned.
NonAdminCredentials == {Absent, Garbage, Forged, Opaque("pat_write"), Opaque("pat_read")}
InitChainSpec == InitAuthSpec /\ provider = "Directory" /\ permissions = "NoPermissionService"
NextChainSpec ==
    \/ \E c \in NonAdminCredentials \cup minted, b \in TokenBodies :
          ChainBegin(NonAdminCredentials, c, b) /\ UNCHANGED <<storageVars, attachVars, errorVars>>
    \/ LayeredVerify /\ UNCHANGED <<storageVars, attachVars, errorVars>>
    \/ DelegateVerify /\ UNCHANGED <<storageVars, attachVars, errorVars>>
    \/ Elevate /\ UNCHANGED <<storageVars, attachVars, errorVars>>
    \/ ScopeGate /\ UNCHANGED <<storageVars, attachVars, errorVars>>
    \/ IssueToken /\ UNCHANGED <<storageVars, attachVars, errorVars>>
    \/ AuthEnd /\ UNCHANGED <<storageVars, attachVars, errorVars>>
    \/ Tick /\ UNCHANGED <<storageVars, attachVars, errorVars>>
SpecChain == InitChainSpec /\ [][NextChainSpec]_vars

InitAttachSpec == InitAttach /\ RestStorage /\ RestAuth /\ RestError
NextAttachSpec ==
    \/ JobStarts /\ UNCHANGED <<storageVars, authVars, errorVars>>
    \/ JobLogs /\ UNCHANGED <<storageVars, authVars, errorVars>>
    \/ JobEnds /\ UNCHANGED <<storageVars, authVars, errorVars>>
    \/ UnfoldBudget /\ UNCHANGED <<storageVars, authVars, errorVars>>
    \/ UnfoldPop /\ UNCHANGED <<storageVars, authVars, errorVars>>
    \/ UnfoldFinished /\ UNCHANGED <<storageVars, authVars, errorVars>>
    \/ DescribeJobs /\ UNCHANGED <<storageVars, authVars, errorVars>>
    \/ GetLogEvents /\ UNCHANGED <<storageVars, authVars, errorVars>>
    \/ Recheck /\ UNCHANGED <<storageVars, authVars, errorVars>>
    \/ Wake /\ UNCHANGED <<storageVars, authVars, errorVars>>
    \/ Attach /\ UNCHANGED <<storageVars, authVars, errorVars>>
    \/ MuxLog /\ UNCHANGED <<storageVars, authVars, errorVars>>
    \/ \E frame \in InboundFrames : MuxRecv(frame) /\ UNCHANGED <<storageVars, authVars, errorVars>>
    \/ MuxRecvError /\ UNCHANGED <<storageVars, authVars, errorVars>>
    \/ Disconnect /\ UNCHANGED <<storageVars, authVars, errorVars>>
SpecAttach == InitAttachSpec /\ [][NextAttachSpec]_vars

\* Attach sessions under the scheduling of the runtime: the task of the
\* session is polled again whenever it can go on, so a step of the closure
\* (a call returns with some result, a sleep ends, the head of the loop runs)
\* and a step of the handler on an item are taken once they stay possible;
\* select! picks between ready branches at random, so a read of a closed
\* socket that is ready again and again is taken.  Nothing is assumed of
\* the job, the results of the calls, or the client.
StreamStep ==
    /\ \/ UnfoldBudget \/ UnfoldPop \/ UnfoldFinished
       \/ DescribeJobs \/ GetLogEvents \/ Recheck \/ Wake
    /\ UNCHANGED <<storageVars, authVars, errorVars>>
HandlerStep == (Attach \/ MuxLog) /\ UNCHANGED <<storageVars, authVars, errorVars>>
RecvErrorStep == MuxRecvError /\ UNCHANGED <<storageVars, authVars, errorVars>>
SpecAttachFair ==
    /\ InitAttachSpec /\ [][NextAttachSpec]_vars
    /\ WF_vars(StreamStep) /\ WF_vars(HandlerStep) /\ SF_vars(RecvErrorStep)

\* The manifest API: POST /manifest and GET /manifest/{version} as
\* concurrent handler tasks, each task serving one request.
InitManifestSpec == Init /\ ~presigning
NextManifestSpec ==
    \/ \E p \in Reqs, m \in Manifests, query \in Queries :
          StartPublish(p, m, query) /\ UNCHANGED <<authVars, attachVars, errorVars>>
    \/ \E p \in Reqs, v \in Versions \cup {Latest} :
          StartGetManifest(p, v) /\ UNCHANGED <<authVars, attachVars, errorVars>>
    \/ \E p \in Reqs : FsOpenTmp(p) /\ UNCHANGED <<authVars, attachVars, errorVars>>
    \/ \E p \in Reqs : FsWriteAll(p) /\ UNCHANGED <<authVars, attachVars, errorVars>>
    \/ \E p \in Reqs : FsRename(p) /\ UNCHANGED <<authVars, attachVars, errorVars>>
    \/ \E p \in Reqs : OdOpen(p) /\ UNCHANGED <<authVars, attachVars, errorVars>>
    \/ \E p \in Reqs : OdWrite(p) /\ UNCHANGED <<authVars, attachVars, errorVars>>
    \/ \E p \in Reqs : OdClose(p) /\ UNCHANGED <<authVars, attachVars, errorVars>>
    \/ \E p \in Reqs : GetManifest(p) /\ UNCHANGED <<authVars, attachVars, errorVars>>
SpecManifest == InitManifestSpec /\ [][NextManifestSpec]_vars

\* The manifest API over a storage whose writes can fail.
NextPublishSpec ==
    \/ NextManifestSpec
    \/ \E p \in Reqs : WriteManifestFails(p) /\ UNCHANGED <<authVars, attachVars, errorVars>>
SpecPublish == InitManifestSpec /\ [][NextPublishSpec]_vars

\* The token service on its own: each verify entry point applied to every
\* kind of token as the clock moves.
InitJwtSpec == InitAuthSpec /\ provider = "Directory" /\ permissions = "NoPermissionService"
                            /\ ~overflowChecks
NextJwtSpec ==
    \/ \E c \in {Absent, Garbage, Forged} \cup Tokens :
          VerifyCall("JwtService::verify", c) /\ UNCHANGED <<storageVars, attachVars, errorVars>>
    \/ \E c \in {Absent, Garbage, Forged} \cup Tokens :
          VerifyCall("JwtBackend::verify", c) /\ UNCHANGED <<storageVars, attachVars, errorVars>>
    \/ AuthEnd /\ UNCHANGED <<storageVars, attachVars, errorVars>>
    \/ Tick /\ UNCHANGED <<storageVars, attachVars, errorVars>>
SpecJwt == InitJwtSpec /\ [][NextJwtSpec]_vars

\* The error mapper applied to every error a handler can return.
InitErrorSpec == InitError /\ RestStorage /\ RestAuth /\ RestAttach
NextErrorSpec == MapError /\ UNCHANGED <<storageVars, authVars, attachVars>>
SpecError == InitErrorSpec /\ [][NextErrorSpec]_vars

(***************************************************************************)
(* Claims about the asset API (specification Spec).                        *)
(***************************************************************************)
IsUpload(p) == Done(p) /\ req[p].kind \in {"post", "put"}
Mismatching(p) == req[p].kind = "put" /\ HexSha256(req[p].body) # req[p].hash

\* C1: at every address h at which a blob is stored, the stored bytes hash
\* to h, in every reachable state of the storage.
C1_StoredBytesHashToAddress ==
    \A h \in Hashes :
        files[BlobPath(h)] # NoFile => HexSha256(files[BlobPath(h)]) = h

\* C2 as stated: every PUT /assets/stream/{h} whose body does not hash to h
\* responds 500, and a GET /assets/{h} made after it responds 404.
C2_MismatchAlways500 ==
    \A p \in Reqs :
        (Done(p) /\ Mismatching(p)) =>
            /\ resp[p].status = 500
            /\ \A g \in Reqs :
                 (Done(g) /\ req[g].kind = "get" /\ req[g].hash = req[p].hash
                    /\ p \in after[g]) => resp[g].status = 404

\* C2 as amended: a PUT /assets/stream/{h} whose body does not hash to h
\* ends in one of three ways.  The backend has no streaming write: 501.  A
\* blob already exists at h when the backend checks: 200, and the storage is
\* left as it is.  The backend wrote the blob: the handler issues the delete
\* of h and responds 500; a delete that succeeds leaves no blob at h, and
\* one that fails leaves the storage as it is.
C2_MismatchOutcome ==
    [][\A p \in Reqs :
         (Mismatching(p) /\ ~Done(p) /\ Done(p)') =>
            \/ /\ backend = "fs"
               /\ resp'[p].status = 501
               /\ files' = files
            \/ /\ backend = "opendal"
               /\ req[p].pc = "write_stream"
               /\ files[BlobPath(req[p].hash)] # NoFile
               /\ resp'[p].status = 200
               /\ files' = files
            \/ /\ backend = "opendal"
               /\ req[p].pc = "verify"
               /\ req[p].created
               /\ resp'[p].status = 500
               /\ \/ resp'[p].deleted = "ok" /\ files'[BlobPath(req[p].hash)] = NoFile
                  \/ resp'[p].deleted = "failed" /\ files' = files
      ]_vars

\* C2 witness: a mismatching PUT has responded 500, its delete succeeded and
\* no blob is at its address.
C2_Witness ==
    \E p \in Reqs :
        /\ Done(p) /\ Mismatching(p)
        /\ resp[p].status = 500 /\ resp[p].deleted = "ok"
        /\ files[BlobPath(req[p].hash)] = NoFile

\* C3: POST /assets with body b returns hex_sha256(b), and a GET of that
\* digest made after the POST responded returns exactly b.  Stated of a
\* storage port that advertises no download URL.
C3_RoundTrip ==
    ~presigning =>
    \A p \in Reqs :
        (Done(p) /\ req[p].kind = "post") =>
            /\ resp[p].status \in {200, 201}
            /\ resp[p].digest = HexSha256(req[p].body)
            /\ \A g \in Reqs :
                 (Done(g) /\ req[g].kind = "get" /\ req[g].hash = resp[p].digest
                    /\ p \in after[g]) =>
                    (resp[g].status = 200 /\ resp[g].bytes = req[p].body)

\* C4: of two POST /assets with the same body, the second made after the
\* first responded 201, the second responds 200 with the same digest.
C4_SecondUploadIsDedupHit ==
    \A p, q \in Reqs :
        (/\ p # q /\ Done(p) /\ Done(q)
         /\ req[p].kind = "post" /\ req[q].kind = "post"
         /\ req[p].body = req[q].body
         /\ p \in after[q]
         /\ resp[p].status = 201) =>
            (resp[q].status = 200 /\ resp[q].digest = resp[p].digest)

\* C14: on FileSystemStorage, where every blob is written by POST /assets,
\* every upload that has responded was answered 201 (created) or 200
\* (already existed), and the file at the address of any upload, in flight
\* or finished, is absent or holds the whole body of that upload.
C14_ConcurrentUploadsOfOneHash ==
    backend = "fs" =>
        \A p \in Reqs :
            req[p].kind = "post" =>
                /\ Done(p) => resp[p].status \in {200, 201}
                /\ \/ files[BlobPath(req[p].hash)] = NoFile
                   \/ files[BlobPath(req[p].hash)] = req[p].body

\* C17: every GET /assets/{h} that has responded was answered 307 with the
\* advertised URL as its location when get_download_url returns a URL for h,
\* and otherwise, when it found a blob, 200 with bytes in the body.
C17_RedirectWheneverUrl ==
    \A g \in Reqs :
        (Done(g) /\ req[g].kind = "get") =>
            IF GetDownloadUrl(req[g].hash) # NoUrl
            THEN resp[g].status = 307 /\ resp[g].location = GetDownloadUrl(req[g].hash)
            ELSE resp[g].status \in {200, 404} /\ resp[g].location = NoUrl

\* The step in which the handler of task p returns its response.
Responds(p) == ~Done(p) /\ Done(p)'

\* C18: a PUT /assets/stream/{h} that finds a blob at h when the backend
\* checks is answered 200 by that very step; a PUT answered 200 made no
\* write, leaves the storage as it is and issues no delete; a PUT whose write
\* created the blob and whose body hashes to h is answered 201, and a PUT is
\* answered 201 in that case only.
C18_StreamUploadStatus ==
    [][\A p \in Reqs :
         req[p].kind = "put" =>
            /\ (/\ req[p].pc = "write_stream" /\ backend = "opendal"
                /\ files[BlobPath(req[p].hash)] # NoFile
                /\ req'[p] # req[p])
                  => Responds(p) /\ resp'[p].status = 200
            /\ (Responds(p) /\ resp'[p].status = 200)
                  => /\ req[p].pc = "write_stream" /\ ~req[p].created
                     /\ files[BlobPath(req[p].hash)] # NoFile
                     /\ files' = files
                     /\ resp'[p].deletes = 0
            /\ (Responds(p) /\ req[p].created /\ ~Mismatching(p))
                  => resp'[p].status = 201 /\ resp'[p].digest = req[p].hash
            /\ (Responds(p) /\ resp'[p].status = 201)
                  => req[p].created /\ ~Mismatching(p)
      ]_vars

\* C18 witness: a PUT has been answered 200 for a blob that an upload made
\* before it had created, and the blob is still there.
C18_Witness ==
    \E p, q \in Reqs :
        /\ Done(p) /\ req[p].kind = "put" /\ resp[p].status = 200
        /\ Done(q) /\ req[q].kind = "put" /\ resp[q].status = 201
        /\ q \in after[p] /\ req[q].hash = req[p].hash
        /\ files[BlobPath(req[p].hash)] = req[q].body

\* C19: the step in which a PUT /assets/stream/{h} responds after its write
\* created the blob and the digests differ makes one delete_file call for h
\* and responds 500, whether the delete removed the blob or failed and left
\* the storage as it is; no other response of a PUT comes with a delete.
C19_MismatchDeletesOnce ==
    [][\A p \in Reqs :
         (req[p].kind = "put" /\ Responds(p)) =>
            IF req[p].created /\ Mismatching(p)
            THEN /\ resp'[p].status = 500
                 /\ resp'[p].deletes = 1
                 /\ \/ /\ resp'[p].deleted = "ok"
                       /\ files' = [files EXCEPT ![BlobPath(req[p].hash)] = NoFile]
                    \/ /\ resp'[p].deleted = "failed"
                       /\ files' = files
            ELSE resp'[p].deletes = 0 /\ resp'[p].deleted = "none" /\ files' = files
      ]_vars

\* C19 witness: a mismatching PUT has responded 500 although its delete
\* failed, and the blob it wrote is still stored.
C19_Witness ==
    \E p \in Reqs :
        /\ Done(p) /\ Mismatching(p)
        /\ resp[p].status = 500 /\ resp[p].deleted = "failed" /\ resp[p].deletes = 1
        /\ files[BlobPath(req[p].hash)] # NoFile

\* C35: a GET /assets/{h} that has found the blob and responded (200 with
\* the bytes, or 307 with the advertised URL) has called get_download_url
\* exactly once.
C35_OneProbePerGet ==
    \A g \in Reqs :
        (Done(g) /\ req[g].kind = "get" /\ resp[g].status \in {200, 307}) =>
            req[g].probes = 1

\* C36: once an upload of h (POST /assets or PUT /assets/stream/{h}) has
\* been acknowledged with 200 or 201, a blob is stored at h and its bytes
\* hash to h, whatever the other requests do.
C36_AcknowledgedBlobStays ==
    \A p \in Reqs :
        (Done(p) /\ req[p].kind \in {"post", "put"} /\ resp[p].status \in {200, 201}) =>
            /\ files[BlobPath(resp[p].digest)] # NoFile
            /\ HexSha256(files[BlobPath(resp[p].digest)]) = resp[p].digest

\* C33: when the body stream of a PUT /assets/stream/{h} breaks off, what
\* the request leaves at h is no blob, or bytes whose digest is h, or bytes
\* that are not the ones this request wrote.
C33_BrokenStreamLeavesNoPartialBlob ==
    [][\A p \in Reqs :
         (Responds(p) /\ resp'[p].aborted # "none") =>
            LET left == files'[BlobPath(req[p].hash)]
            IN  \/ left = NoFile
                \/ HexSha256(left) = req[p].hash
                \/ left # req[p].wbuf
      ]_vars

(***************************************************************************)
(* Claims about authentication and authorization (specification SpecAuth). *)
(***************************************************************************)
Held(scopes) == {scopes[i] : i \in 1..Len(scopes)}
Requested(r) == IF r.body.has_scopes THEN r.body.scopes ELSE <<READ>>
Undecodable(c) == c.kind \in {"garbage", "opaque"} \/ (c.kind = "jwt" /\ c.sig # "hs256")

\* C5: the identity the scope gate examines passes iff its scopes contain
\* the endpoint's required scope or admin; one holding neither is rejected
\* with 403.
C5_ScopeGate ==
    areq.gate # "none" =>
        /\ (areq.gate = "passed") <=>
              (RequiredScope(areq.endpoint) \in Held(areq.user.scopes)
                 \/ ADMIN \in Held(areq.user.scopes))
        /\ (areq.gate = "rejected") => (areq.pc = "done" /\ areq.status = 403)

\* C5 witness: an identity holding admin but not the required scope passed.
C5_Witness ==
    /\ areq.gate = "passed"
    /\ ADMIN \in Held(areq.user.scopes)
    /\ RequiredScope(areq.endpoint) \notin Held(areq.user.scopes)

\* C6: POST /auth/token by a caller holding write but not admin fails with
\* 403 iff the requested scopes (default [read]) contain admin or write, and
\* otherwise succeeds with a token carrying exactly the requested scopes.
\* Stated of a server that has no permission service, where the caller's
\* scopes are those its credential verifies to.
C6_TokenIssuance ==
    (/\ permissions = "NoPermissionService"
     /\ areq.endpoint = "issue_token" /\ areq.pc = "done" /\ areq.gate = "passed"
     /\ WRITE \in Held(areq.user.scopes) /\ ADMIN \notin Held(areq.user.scopes)) =>
        LET privileged == Held(Requested(areq)) \cap {ADMIN, WRITE} # {}
        IN  /\ (areq.status = 403) <=> privileged
            /\ ~privileged =>
                 (areq.status = 200 /\ areq.token.kind = "jwt"
                    /\ areq.token.scopes = Requested(areq))

\* C7 as stated: a signed token past its exp yields 401 without a call of
\* the provider; a syntactically invalid token yields 401 with one call.
C7_ExpiredAndInvalidBoth401 ==
    /\ (/\ areq.jwt # "none"
        /\ areq.cred.kind = "jwt" /\ areq.cred.sig = "hs256"
        /\ areq.cred.exp < areq.verifiedAt) =>
            (areq.pc = "done" /\ areq.status = 401 /\ areq.providerCalls = 0)
    /\ (areq.cred.kind = "garbage" /\ areq.pc \in {"elevate", "scope", "handler", "done"}) =>
            (areq.pc = "done" /\ areq.status = 401 /\ areq.providerCalls = 1)

\* C7 as amended: a well-formed token signed with the server's secret whose
\* exp lies more than the validation leeway in the past yields Expired
\* (401) and the provider is not called; a credential the token service
\* cannot decode (malformed or wrongly signed) is handed to the provider
\* exactly once, and the provider's result is the result: its identity if
\* it accepts the credential, its error (401 for Invalid) otherwise.
C7_LayeredAuth ==
    /\ (/\ areq.jwt # "none"
        /\ areq.cred.kind = "jwt" /\ areq.cred.sig = "hs256"
        /\ areq.cred.exp < areq.verifiedAt - Leeway) =>
            (/\ areq.pc = "done" /\ areq.status = 401
             /\ areq.jwt = "Expired" /\ areq.providerCalls = 0)
    /\ (Undecodable(areq.cred) /\ areq.pc \in {"elevate", "scope", "handler", "done"}) =>
            /\ areq.providerCalls = 1
            /\ IF ProviderVerify(provider, areq.cred).ok
               THEN areq.identity = ProviderVerify(provider, areq.cred).user
               ELSE /\ areq.pc = "done" /\ areq.gate = "none"
                    /\ areq.status = AuthStatus(ProviderVerify(provider, areq.cred).err)

\* C7 witness: a token issued by the server, presented after it expired,
\* was refused as Expired.
C7_Witness ==
    /\ areq.cred \in minted
    /\ areq.jwt = "Expired"
    /\ areq.pc = "done" /\ areq.status = 401 /\ areq.providerCalls = 0

\* C8: an identity whose scopes are exactly [read] passes the gates of
\* GET /manifest/{version} and GET /assets/{hash} and is refused with 403
\* on POST /manifest; an identity holding write passes the gates of
\* POST /assets and POST /manifest.  Stated of a server that has no
\* permission service, where the identity reaches the gate as verified.
C8_ReadAndWritePermissions ==
    permissions = "NoPermissionService" =>
    /\ (areq.gate # "none" /\ areq.identity.scopes = <<READ>>) =>
          /\ areq.endpoint \in {"get_manifest", "download_asset"} => areq.gate = "passed"
          /\ areq.endpoint = "publish_manifest" => (areq.gate = "rejected" /\ areq.status = 403)
    /\ (areq.gate # "none" /\ WRITE \in Held(areq.identity.scopes)) =>
          (areq.endpoint \in {"upload_asset", "publish_manifest"} => areq.gate = "passed")

\* C9: no POST /auth/token returns a token carrying admin, and every
\* successful POST /auth/token is made by an identity holding admin.
\* Stated of a server that has no permission service.
C9_OnlyAdminsMintAndNoAdminTokens ==
    permissions = "NoPermissionService" =>
    /\ \A t \in minted : ADMIN \notin Held(t.scopes)
    /\ (areq.endpoint = "issue_token" /\ areq.pc = "done" /\ areq.status = 200) =>
          (ADMIN \notin Held(areq.token.scopes) /\ ADMIN \in Held(areq.user.scopes))

\* C25: a handler body runs, and a token is minted, only for a request whose
\* credential was verified and whose scope gate passed; the gate passes
\* exactly when the identity as elevated holds admin or the endpoint's scope,
\* and answers 403 otherwise; and a request answered 401 or 403 has minted no
\* token and has run no handler body but the refusal of issue_token.
C25_ExtractorsBeforeHandler ==
    [][/\ (areq.pc = "handler" /\ areq' # areq) \/ minted' # minted =>
             /\ areq.pc = "handler"
             /\ areq.gate = "passed"
             /\ areq.jwt # "none"
       /\ (areq.pc = "scope" /\ areq' # areq) =>
             IF Held(areq.user.scopes) \cap {ADMIN, RequiredScope(areq.endpoint)} # {}
             THEN areq'.gate = "passed" /\ areq'.pc = "handler"
             ELSE areq'.gate = "rejected" /\ areq'.pc = "done" /\ areq'.status = 403
       /\ (areq.pc # "done" /\ areq'.pc = "done" /\ areq'.status \in {401, 403}) =>
             /\ minted' = minted
             /\ areq'.token = NoToken
             /\ areq.pc = "handler" => areq.endpoint = "issue_token"
      ]_vars

\* C25 witness: a credential verified as admin was elevated to an identity
\* without the endpoint's scope, and the request was answered 403 with
\* nothing minted.
C25_Witness ==
    /\ areq.pc = "done" /\ areq.status = 403 /\ areq.gate = "rejected"
    /\ ADMIN \in Held(areq.identity.scopes)
    /\ Held(areq.user.scopes) \cap {ADMIN, RequiredScope(areq.endpoint)} = {}
    /\ minted = {}

\* C26: within one request the delegated provider's verify is called at most
\* once, and only when the token service has already returned a failure
\* other than Expired for a credential that is not empty; a request whose
\* credential is empty or whose token-service verdict is Ok or Expired has
\* made no call of the provider.
C26_ProviderOnlyOnFallThrough ==
    [][/\ areq'.providerCalls > areq.providerCalls =>
             /\ areq.providerCalls = 0 /\ areq'.providerCalls = 1
             /\ ~IsEmpty(areq.cred)
             /\ areq.jwt \notin {"none", "Ok", "Expired"}
             /\ areq'.jwt = areq.jwt
       /\ (IsEmpty(areq.cred) \/ areq.jwt \in {"none", "Ok", "Expired"}) =>
             areq.providerCalls = 0
      ]_vars

\* C26 witness: the token service refused an opaque credential as Invalid and
\* the provider, called once, accepted it.
C26_Witness ==
    /\ areq.pc = "done" /\ areq.status = 200
    /\ areq.jwt = "Invalid" /\ areq.providerCalls = 1
    /\ areq.cred.kind = "opaque"

\* C34: a POST /auth/token that reached the handler ends with a token whose
\* exp is the clock at the mint plus the duration asked for, as integers, or
\* with an error response (403 of the scope rule, 500 of a system error); it
\* never ends without a response and never with an exp of another value.
C34_MintExactOrSystemError ==
    (areq.endpoint = "issue_token" /\ areq.pc = "done" /\ areq.gate = "passed") =>
        LET duration == IF areq.body.has_duration THEN areq.body.duration ELSE DefaultDuration
        IN  /\ areq.status \in {200, 403, 500}
            /\ areq.status = 200 => areq.token.exp - duration = areq.mintedAt

BinaryFrames == SelectSeq(sock.sent, LAMBDA f : f.type = "Binary")
SentLogs == [i \in 1..Len(BinaryFrames) |-> BinaryFrames[i].bytes.json]
IsPrefix(a, b) == Len(a) <= Len(b) /\ SubSeq(b, 1, Len(a)) = a

\* C10: the LogOutput records of the binary frames sent so far are a prefix
\* of the Ok records the log stream has yielded, and are all of them once
\* the session has ended because the log stream ended.
C10_FramesFollowYielded ==
    /\ IsPrefix(SentLogs, yielded)
    /\ (mux.pc = "closed" /\ mux.exit = "source") => SentLogs = yielded

\* C10 witness: a session that ended with the log stream after every event
\* of the job's log was yielded and sent, in the order of the log.
C10_Witness ==
    /\ mux.pc = "closed" /\ mux.exit = "source"
    /\ Len(yielded) = MaxEvents
    /\ SentLogs = yielded
    /\ yielded = [i \in 1..Len(cwlog) |-> ToLogOutput(cwlog[i])]

\* C11: when the log stream has ended, the handler's next step sends the
\* Close frame and returns; when the client's Close frame is read, that step
\* sends the Close frame and returns; and once the handler has returned no
\* record is pulled from the log stream and no frame is sent.
C11_CloseOnEitherEnd ==
    [][/\ (mux.pc = "item" /\ mux.maybe_log.tag = "None" /\ mux' # mux) =>
             /\ mux'.pc = "closed" /\ mux'.exit = "source"
             /\ sock'.sent = Send(sock, Close).sent
       /\ (mux'.pc = "closed" /\ mux.pc # "closed" /\ mux'.exit = "client") =>
             /\ mux.pc = "loop"
             /\ sock'.inbound = sock.inbound + 1
             /\ sock'.sent = Append(sock.sent, Close)
             /\ UNCHANGED <<ls, yielded, errors, outcome>>
       /\ mux.pc = "closed" => UNCHANGED <<ls, yielded, mux, sock>>
      ]_vars

\* C11 witness: the client closed while records were still buffered in the
\* log stream; the session ended with the Close frame and the records stayed.
C11_Witness ==
    /\ mux.pc = "closed" /\ mux.exit = "client"
    /\ ls.buffer # <<>>
    /\ sock.sent # <<>> /\ sock.sent[Len(sock.sent)] = Close

BudgetFrame == Text(<<"Stream Error: ", "Too many transient errors">>)

\* C23: the frames a session has sent hold the text frame of the exhausted
\* retry budget at most once, and nothing follows that frame but one Close
\* frame.
C23_BudgetFrameThenClose ==
    \A i \in 1..Len(sock.sent) :
       sock.sent[i] = BudgetFrame =>
          \A j \in (i + 1)..Len(sock.sent) : j = i + 1 /\ sock.sent[j] = Close

\* C27: once the log stream has yielded an Err item it yields nothing more
\* (no record, no second Err) and calls the backend no more: its state stays
\* as it is, or the stream ends.
C27_ErrIsTerminal ==
    [][errors > 0 =>
          /\ errors' = errors
          /\ yielded' = yielded
          /\ ls' = ls \/ ls' = [ls EXCEPT !.pc = "ended"]
          /\ mux' = mux \/ mux'.maybe_log.tag \in {"Pending", "None"}
      ]_vars

\* A step of the closure in which it made a backend call.
CallStep ==
    /\ outcome' # NoCall
    /\ ls' # ls \/ (mux.pc = "loop" /\ mux'.pc = "item")
CountedCall == CallStep /\ outcome'.api \in {"describe_jobs", "get_log_events"}
TransientFailure ==
    \/ /\ outcome'.api = "describe_jobs"
       /\ outcome'.result \in {"TimeoutError", "DispatchFailure"}
    \/ /\ outcome'.api = "get_log_events"
       /\ outcome'.result \in {"TimeoutError", "DispatchFailure", "ServiceUnavailableException",
                                "ResourceNotFoundException", "OtherServiceError5xx"}

Fetched == IF ls.next_token = NoNextToken THEN 0 ELSE ls.next_token
PageOk == CallStep /\ outcome' = Called("get_log_events", "Ok")

\* C30: a fetch that returns a non-empty page sets next_token to the page's
\* forward token and appends the page's events to the buffer in page order;
\* one that returns an empty page leaves next_token and the buffer alone and
\* ends the stream if the job is known to be finished, else re-checks the
\* job and ends the stream or sleeps and polls again; no backend call is
\* made while the buffer holds a record, each record emitted is the oldest
\* of the buffer, and so the records emitted and buffered are the events
\* fetched, in the order of the log.
C30_PagesAndBuffer ==
    [][/\ PageOk =>
             IF ls'.next_token # ls.next_token
             THEN /\ ls'.next_token \in (Fetched + 1)..Len(cwlog)
                  /\ ls'.buffer = ls.buffer \o
                        [i \in 1..(ls'.next_token - Fetched) |-> ToLogOutput(cwlog[Fetched + i])]
                  /\ ls'.pc = "top" /\ mux' = mux
             ELSE /\ ls'.buffer = ls.buffer
                  /\ IF ls.finished
                     THEN ls'.pc = "ended" /\ mux'.maybe_log = ItemNone
                     ELSE ls'.pc = "recheck" /\ mux' = mux
       /\ (ls.pc = "recheck" /\ ls' # ls) =>
             /\ ls'.next_token = ls.next_token /\ ls'.buffer = ls.buffer
             /\ IF ls'.finished THEN ls'.pc = "ended" /\ mux'.maybe_log = ItemNone
                ELSE ls'.pc = "sleep" /\ mux' = mux
       /\ (ls.pc = "sleep" /\ ls' # ls) => ls' = [ls EXCEPT !.pc = "top"]
       /\ CallStep => ls.buffer = <<>>
       /\ (mux.pc = "loop" /\ mux'.pc = "item" /\ ls.buffer # <<>>) =>
             /\ mux'.maybe_log = ItemOk(Head(ls.buffer))
             /\ ls'.buffer = Tail(ls.buffer)
       /\ yielded \o ls.buffer = [i \in 1..Fetched |-> ToLogOutput(cwlog[i])]
      ]_vars

\* C30 witness: one page brought two events; the older has just been
\* emitted and the newer waits in the buffer.
C30_Witness ==
    /\ ls.next_token = 2 /\ outcome = NoCall
    /\ mux.pc = "item" /\ mux.maybe_log = ItemOk(ToLogOutput(cwlog[1]))
    /\ yielded = <<ToLogOutput(cwlog[1])>>
    /\ ls.buffer = <<ToLogOutput(cwlog[2])>>

\* C29: in a session whose job reaches a terminal status, if from some time
\* on no backend call fails, or from some time on no backend call succeeds,
\* then the handler eventually leaves its loop (it has then sent Close and
\* returned).
C29_SessionEnds ==
    (/\ <>Terminal(job.status)
     /\ \/ <>[](outcome.result \in {"", "Ok"})
        \/ <>[](outcome.result # "Ok"))
    => <>(mux.pc = "closed")

\* The handler's step on the item it took from the log stream.
OnItem(tag) == mux.pc = "item" /\ mux.maybe_log.tag = tag /\ mux' # mux
\* One text frame with the description of the item's error goes out (the
\* history of sent keeps the first MaxStreamErrors text frames).
ErrorFrameSent ==
    IF sock.open /\ Len(Texts(sock.sent)) < MaxStreamErrors
    THEN /\ Len(sock'.sent) = Len(sock.sent) + 1
         /\ SubSeq(sock'.sent, 1, Len(sock.sent)) = sock.sent
         /\ sock'.sent[Len(sock'.sent)].type = "Text"
         /\ sock'.sent[Len(sock'.sent)].text = <<"Stream Error: ", mux.maybe_log.err>>
    ELSE sock'.sent = sock.sent

\* C31 as stated: on an Err item the handler sends one text frame with the
\* error's description and goes on reading the log stream, and a step on an
\* item leaves the loop only when the item is the end of the stream.
C31_ErrContinuesOnlyEndExits ==
    [][/\ OnItem("Err") => (ErrorFrameSent /\ mux'.pc = "loop" /\ UNCHANGED <<ls, yielded>>)
       /\ (mux.pc = "item" /\ mux'.pc = "closed") => mux.maybe_log.tag = "None"
      ]_vars

\* C31 amended: on an Err item the handler sends one text frame with the
\* error's description and goes on reading the log stream, and a step on an
\* item leaves the loop only when the item is the end of the stream or when
\* the binary frame of an Ok item could not be sent.
C31_ErrContinues ==
    [][/\ OnItem("Err") => (ErrorFrameSent /\ mux'.pc = "loop" /\ UNCHANGED <<ls, yielded>>)
       /\ (mux.pc = "item" /\ mux'.pc = "closed") =>
             \/ mux.maybe_log.tag = "None"
             \/ mux.maybe_log.tag = "Ok" /\ ~sock.open
      ]_vars

\* C31 witness: an Err item was answered with its text frame and the handler
\* is back in its loop, the socket open.
C31_Witness ==
    /\ mux.pc = "loop" /\ sock.open /\ errors = 1
    /\ sock.sent # <<>>
    /\ sock.sent[Len(sock.sent)].type = "Text"
    /\ sock.sent[Len(sock.sent)].text = <<"Stream Error: ", "get_log_events">>

\* The handler's step on a frame it read from the client.
Read(frame) == sock'.inbound = sock.inbound + 1 /\ sock'.frame = frame

\* C32: a Ping, Pong, Text or Binary frame read from the client changes
\* nothing: the handler sends no frame, the log stream and its records stay
\* as they are, and the handler is in its loop; and the handler leaves the
\* loop on the client's side only on a Close frame read or on a socket that
\* is closed.
C32_OnlyCloseExits ==
    [][/\ \A frame \in {"Ping", "Pong", "Text", "Binary"} :
             Read(frame) =>
                /\ sock'.sent = sock.sent /\ sock'.open = sock.open
                /\ mux' = mux /\ mux.pc = "loop"
                /\ UNCHANGED <<ls, yielded, errors, outcome>>
       /\ (mux.pc # "closed" /\ mux'.pc = "closed" /\ mux'.exit \in {"client", "recv"}) =>
             \/ Read("Close") /\ mux'.exit = "client"
             \/ ~sock.open /\ sock'.inbound = sock.inbound /\ mux'.exit = "recv"
      ]_vars

\* C32 witness: a session in which the client's Ping was read and one record
\* was emitted; the record's binary frame is all that was sent, and the
\* handler is in its loop.
C32_Witness ==
    /\ sock.frame = "Ping" /\ sock.inbound = 1
    /\ mux.pc = "loop" /\ sock.open
    /\ Len(yielded) = 1 /\ Len(sock.sent) = 1 /\ sock.sent[1].type = "Binary"

\* C37: when the log-tail sequence of a job that has terminated has ended,
\* the records it emitted are the events of the job's log stream, all of
\* them and in their order.
C37_AllEventsBeforeEnd ==
    (ls.pc = "ended" /\ Terminal(job.status)) =>
        yielded = [i \in 1..Len(cwlog) |-> ToLogOutput(cwlog[i])]

(***************************************************************************)
(* Claims about the token service (specification SpecJwt).                 *)
(***************************************************************************)
\* C22: whichever verify entry point was called, the result is Missing for
\* the empty token, Expired for a token signed with the server's secret
\* whose exp lies further back than the decoder's leeway, Invalid for every
\* other token that does not decode, and otherwise the identity made of the
\* token's sub and scopes.
C22_VerifyEntryPoints ==
    (areq.pc = "done" /\ areq.endpoint \in VerifyEntries) =>
        LET c == areq.cred
            signed == c.kind = "jwt" /\ c.sig = "hs256"
        IN  IF IsEmpty(c) THEN areq.jwt = "Missing"
            ELSE IF ~signed THEN areq.jwt = "Invalid"
            ELSE IF c.exp < areq.verifiedAt - Leeway THEN areq.jwt = "Expired"
            ELSE /\ areq.jwt = "Ok"
                 /\ areq.identity = [id |-> c.sub, scopes |-> c.scopes]

(***************************************************************************)
(* Claims about the manifest API (specifications SpecManifest and          *)
(* SpecPublish).                                                           *)
(***************************************************************************)
IsPublish(p) == req[p].kind = "publish"
\* POST /manifest?latest=true of task p has responded 201.
PublishedLatest(p) == IsPublish(p) /\ Done(p) /\ resp[p].status = 201 /\ req[p].latest
\* GET /manifest/<version of p> and GET /manifest/latest, made now, return
\* the same JSON.
SameJson(p) ==
    /\ GetManifestResponse(files, req[p].version).status = 200
    /\ GetManifestResponse(files, req[p].version) = GetManifestResponse(files, Latest)

\* C12 as stated: once POST /manifest?latest=true with version v has
\* responded 201, and as long as no publish request has been made after that
\* response, GET /manifest/v and GET /manifest/latest return the same JSON.
\* Stated of a storage whose single writes are atomic, OpendalStorage over a
\* service with an atomic writer.
C12_SameJsonUntilNextPublish ==
    (backend = "opendal" /\ atomicWriter) =>
        \A p \in Reqs :
            (PublishedLatest(p) /\ \A q \in Reqs \ {p} : IsPublish(q) => p \notin after[q])
                => SameJson(p)

\* C12 as amended: once POST /manifest?latest=true with version v has
\* responded 201, GET /manifest/v and GET /manifest/latest return the same
\* JSON, the manifest of that request, provided every other publish request
\* had responded before this one was made.
C12_SameJsonOfLonePublish ==
    \A p \in Reqs :
        (PublishedLatest(p) /\ \A q \in Reqs \ {p} : IsPublish(q) => q \in after[p])
            => /\ SameJson(p)
               /\ ToVecPretty(GetManifestResponse(files, Latest).json) = req[p].body

\* C12 witness: a publish with ?latest=true has responded 201 after an
\* earlier publish of another manifest, also with ?latest=true, had responded.
C12_Witness ==
    \E p, q \in Reqs :
        /\ PublishedLatest(p) /\ PublishedLatest(q)
        /\ q \in after[p]
        /\ req[q].body # req[p].body

\* The bytes some publish request writes, or has written, to manifests/<v>.
WrittenTo(v) ==
    {req[p].body : p \in {q \in Reqs : /\ IsPublish(q)
                                       /\ \/ req[q].version = v
                                          \/ v = Latest /\ req[q].latest}}

\* C13: in every reachable state, what a reader finds at manifests/<version>
\* and at manifests/latest is no file (the state before the first write) or
\* the whole bytes of a manifest written to that path, also with several
\* manifest writes in flight.  Stated of FileSystemStorage.
C13_ManifestWritesAtomic ==
    backend = "fs" =>
        \A v \in Versions \cup {Latest} :
            files[ManifestPath(v)] = NoFile \/ files[ManifestPath(v)] \in WrittenTo(v)

\* The JSON texts of the manifests.
ManifestTexts == {ToVecPretty(m) : m \in Manifests}

\* C20: the step in which GET /manifest/{version} responds answers 404 when
\* no file is at manifests/<version>, 500 when the bytes there are not the
\* JSON text of a manifest (an empty or cut-off file), and otherwise 200 with
\* the JSON value whose text the stored bytes are.
C20_GetManifestStatus ==
    [][\A g \in Reqs :
         (req[g].kind = "get_manifest" /\ Responds(g)) =>
            LET data == files[ManifestPath(req[g].version)]
            IN  /\ data = NoFile => resp'[g].status = 404
                /\ (data # NoFile /\ data \notin ManifestTexts) => resp'[g].status = 500
                /\ data \in ManifestTexts =>
                      /\ resp'[g].status = 200
                      /\ resp'[g].json \in Manifests
                      /\ ToVecPretty(resp'[g].json) = data
      ]_vars

\* C20 witness: a GET /manifest/{version} has been answered 500 while the
\* file of the version is empty, a publish of it being under way.
C20_Witness ==
    \E g, p \in Reqs :
        /\ Done(g) /\ req[g].kind = "get_manifest" /\ resp[g].status = 500
        /\ IsPublish(p) /\ req[p].version = req[g].version
        /\ files[ManifestPath(req[g].version)] = <<>>

\* The step is one of the handler of task p.
StepOf(p) == req'[p].pc # req[p].pc \/ req'[p].todo # req[p].todo

\* C21: on FileSystemStorage, for every step of a POST /manifest handler:
\* params.latest is false for ?latest=false and true for ?latest=true and
\* for no parameter; the only files under manifests/ the step changes are
\* manifests/<manifest.version> and, when latest is true, manifests/latest,
\* and a file it changes then holds the request's serialised manifest; and
\* when the step responds, the response is 201.
C21_PublishWrites ==
    [][backend = "fs" =>
         \A p \in Reqs :
            (IsPublish(p) /\ StepOf(p)) =>
               /\ req[p].latest = (req[p].query # "latest=false")
               /\ \A v \in Versions \cup {Latest} :
                     files'[ManifestPath(v)] # files[ManifestPath(v)] =>
                        /\ v = req[p].version \/ (v = Latest /\ req[p].latest)
                        /\ files'[ManifestPath(v)] = req[p].body
               /\ Responds(p) => resp'[p].status = 201
      ]_vars

\* C38: a POST /manifest that has responded with an error has completed no
\* write_manifest: neither manifests/<manifest.version> nor manifests/latest
\* was written by it.
C38_PublishAllOrNothing ==
    \A p \in Reqs :
        (IsPublish(p) /\ Done(p) /\ resp[p].status >= 400) => req[p].wrote = 0

(***************************************************************************)
(* Claims about the keys the asset endpoints reach (specification          *)
(* SpecPath).                                                              *)
(***************************************************************************)
\* C40: whatever the {hash} parameter is, no step of a PUT
\* /assets/stream/{hash} handler creates, changes or deletes a file under
\* manifests/, and the file a GET /assets/{hash} handler reads and returns
\* is not one under manifests/.
C40_AssetEndpointsTouchOnlyBlobs ==
    [][\A p \in Reqs :
         /\ (req[p].kind = "put" /\ StepOf(p)) =>
               \A v \in Versions \cup {Latest} :
                  files'[ManifestPath(v)] = files[ManifestPath(v)]
         /\ (req[p].kind = "get" /\ Responds(p) /\ resp'[p].status = 200) =>
               \A v \in Versions \cup {Latest} : req[p].hash # SlashParam(v)
      ]_vars

(***************************************************************************)
(* Claims about the error mapper (specification SpecError).                *)
(***************************************************************************)
Mapped(family) == apiError.family = family /\ httpResponse # NoHttpResponse

\* C15: the response made of a StorageError has status 404 for NotFound,
\* 501 for Unsupported, 400 for InvalidRequest, and 500 for Io, Serialization
\* and System.
C15_StorageErrorStatus ==
    Mapped("StorageError") =>
        httpResponse.status =
            CASE apiError.kind = "NotFound" -> 404
              [] apiError.kind = "Unsupported" -> 501
              [] apiError.kind = "InvalidRequest" -> 400
              [] apiError.kind \in {"Io", "Serialization", "System"} -> 500

\* C16: the response made of an AuthError has status 401 for Missing, Invalid
\* and Expired, 403 for Forbidden, 501 for Unsupported and 500 for System;
\* the response made of a ComputeError has status 404 for NotFound, 400 for
\* InvalidRequest, 501 for Unsupported and 500 for System.
C16_AuthAndComputeErrorStatus ==
    /\ Mapped("AuthError") =>
          httpResponse.status =
              CASE apiError.kind \in {"Missing", "Invalid", "Expired"} -> 401
                [] apiError.kind = "Forbidden" -> 403
                [] apiError.kind = "Unsupported" -> 501
                [] apiError.kind = "System" -> 500
    /\ Mapped("ComputeError") =>
          httpResponse.status =
              CASE apiError.kind = "NotFound" -> 404
                [] apiError.kind = "InvalidRequest" -> 400
                [] apiError.kind = "Unsupported" -> 501
                [] apiError.kind = "System" -> 500

\* C16 witness: an AuthError::Forbidden has been answered with 403.
C16_Witness ==
    /\ Mapped("AuthError") /\ apiError.kind = "Forbidden"
    /\ httpResponse.status = 403

SystemKind(err) ==
    \/ err.family = "StorageError" /\ err.kind \in {"Io", "Serialization", "System"}
    \/ err.family \in {"ComputeError", "AuthError"} /\ err.kind = "System"

\* C24: the body of the response made of a StorageError, ComputeError or
\* AuthError is a fixed text without the error's message when the kind is a
\* System kind (Io, Serialization, System), and is the error's own text (its
\* to_string()) for every other kind.
C24_SystemBodiesFixedOthersVerbatim ==
    (httpResponse # NoHttpResponse /\ apiError.family # "anyhow") =>
        IF SystemKind(apiError)
        THEN httpResponse.body.arg = NoMessage /\ httpResponse.body.display[1] = "fixed"
        ELSE httpResponse.body = Display(apiError)

====
